---- MODULE Spec2Model ----
(***************************************************************************)
(* Verification model of the GIX job pipeline: the GCAM auction engine     *)
(* (services/gcam-node), with its sled-backed store, and the AJR router    *)
(* (services/ajr-router).                                                  *)
(***************************************************************************)
EXTENDS Integers, Sequences, FiniteSets, TLC

(***************************************************************************)
(* IEEE-754 binary64 arithmetic on non-negative values, as used by         *)
(* ComputeProvider::calculate_price.  A value is [m, e] = m * 2^e with m a *)
(* natural number held as little-endian limbs of 15 bits (TLC integers are *)
(* 32 bits wide).  Every operation rounds to nearest, ties to even, to 53  *)
(* significant bits.  Exponent range limits are never reached here.        *)
(***************************************************************************)
LimbBits == 15
Base == 2^LimbBits
MantBits == 53

Limb(x, i) == IF i < Len(x) THEN x[i + 1] ELSE 0

RECURSIVE BigFromInt(_)
BigFromInt(n) == IF n = 0 THEN <<>> ELSE <<n % Base>> \o BigFromInt(n \div Base)

RECURSIVE BigToInt(_)
BigToInt(x) == IF x = <<>> THEN 0 ELSE x[1] + Base * BigToInt(Tail(x))

RECURSIVE BigTrim(_)
BigTrim(x) ==
    IF x # <<>> /\ x[Len(x)] = 0 THEN BigTrim(SubSeq(x, 1, Len(x) - 1)) ELSE x

RECURSIVE BigAddC(_, _, _)
BigAddC(x, y, c) ==
    IF x = <<>> /\ y = <<>>
    THEN (IF c = 0 THEN <<>> ELSE <<c>>)
    ELSE LET s == Limb(x, 0) + Limb(y, 0) + c
         IN <<s % Base>> \o BigAddC(IF x = <<>> THEN <<>> ELSE Tail(x),
                                    IF y = <<>> THEN <<>> ELSE Tail(y),
                                    s \div Base)

BigAdd(x, y) == BigTrim(BigAddC(x, y, 0))

RECURSIVE BigMulSmallC(_, _, _)
BigMulSmallC(x, k, c) ==
    IF x = <<>>
    THEN (IF c = 0 THEN <<>> ELSE <<c>>)
    ELSE LET s == x[1] * k + c
         IN <<s % Base>> \o BigMulSmallC(Tail(x), k, s \div Base)

RECURSIVE BigMul(_, _)
BigMul(x, y) ==
    IF y = <<>> THEN <<>>
    ELSE BigAdd(BigMulSmallC(x, y[1], 0), <<0>> \o BigMul(x, Tail(y)))

\* Quotient and remainder of x by a divisor d <= Base.
RECURSIVE BigDivSmall(_, _)
BigDivSmall(x, d) ==
    IF x = <<>> THEN [q |-> <<>>, r |-> 0]
    ELSE LET hi == BigDivSmall(Tail(x), d)
             cur == hi.r * Base + x[1]
         IN [q |-> <<cur \div d>> \o hi.q, r |-> cur % d]

RECURSIVE IntBitLen(_)
IntBitLen(n) == IF n = 0 THEN 0 ELSE 1 + IntBitLen(n \div 2)

BigBitLen(x) ==
    IF x = <<>> THEN 0 ELSE LimbBits * (Len(x) - 1) + IntBitLen(x[Len(x)])

BigShr(x, s) ==
    LET w == s \div LimbBits
        b == s % LimbBits
    IN BigTrim([k \in 1..Len(x) |->
                  (Limb(x, k - 1 + w) \div 2^b)
                  + (Limb(x, k + w) % 2^b) * 2^(LimbBits - b)])

BigShl(x, s) ==
    LET w == s \div LimbBits
        b == s % LimbBits
    IN IF x = <<>> THEN <<>>
       ELSE [k \in 1..w |-> 0] \o BigMulSmallC(x, 2^b, 0)

BigBit(x, i) == (Limb(x, i \div LimbBits) \div 2^(i % LimbBits)) % 2

BigLowZero(x, s) == BigShl(BigShr(x, s), s) = BigTrim(x)

\* n * 2^e rounded to nearest, ties to even, at MantBits significant bits.
F64Round(n, e) ==
    LET x == BigTrim(n)
        L == BigBitLen(x)
    IN IF L <= MantBits THEN [m |-> x, e |-> e]
       ELSE LET s == L - MantBits
                q == BigShr(x, s)
                half == BigBit(x, s - 1) = 1
                sticky == ~BigLowZero(x, s - 1)
                up == half /\ (sticky \/ Limb(q, 0) % 2 = 1)
            IN [m |-> IF up THEN BigAdd(q, <<1>>) ELSE q, e |-> e + s]

\* `n as f64`
F64FromInt(n) == F64Round(BigFromInt(n), 0)

F64Mul(a, b) == F64Round(BigMul(a.m, b.m), a.e + b.e)

F64Add(a, b) ==
    LET emin == IF a.e < b.e THEN a.e ELSE b.e
    IN F64Round(BigAdd(BigShl(a.m, a.e - emin), BigShl(b.m, b.e - emin)), emin)

\* The same value with the factors of two moved from the mantissa to the exponent.
RECURSIVE F64Odd(_)
F64Odd(a) ==
    IF a.m = <<>> \/ a.m[1] % 2 = 1 THEN a
    ELSE F64Odd([m |-> BigShr(a.m, 1), e |-> a.e + 1])

\* a / b for a divisor whose odd part fits one limb.  The dividend is
\* extended by 5 limbs, so the quotient keeps more than MantBits + 2 bits and
\* the remainder is folded into a sticky bit below the rounding position.
F64Div(a, b) ==
    LET k == 5 * LimbBits
        d == F64Odd(b)
        qr == BigDivSmall(BigShl(a.m, k), BigToInt(d.m))
        n == BigAdd(BigMulSmallC(qr.q, 2, 0), IF qr.r = 0 THEN <<>> ELSE <<1>>)
    IN IF a.m = <<>> THEN [m |-> <<>>, e |-> 0]
       ELSE F64Round(n, a.e - d.e - k - 1)

RECURSIVE BigLess(_, _)
BigLess(x, y) ==
    IF Len(x) # Len(y) THEN Len(x) < Len(y)
    ELSE IF x = <<>> THEN FALSE
    ELSE IF x[Len(x)] # y[Len(y)] THEN x[Len(x)] < y[Len(y)]
    ELSE BigLess(SubSeq(x, 1, Len(x) - 1), SubSeq(y, 1, Len(y) - 1))

\* a < b (partial_cmp = Less); both operands are finite and non-negative.
F64Less(a, b) ==
    LET emin == IF a.e < b.e THEN a.e ELSE b.e
    IN BigLess(BigTrim(BigShl(a.m, a.e - emin)), BigTrim(BigShl(b.m, b.e - emin)))

\* `x as u64` for a non-negative finite x: truncation toward zero.
F64Trunc(a) ==
    IF a.e >= 0 THEN BigToInt(BigShl(a.m, a.e)) ELSE BigToInt(BigShr(a.m, 0 - a.e))

(***************************************************************************)
(* Inputs.                                                                 *)
(***************************************************************************)
MaxTasks == 2

Tasks == 1..MaxTasks

\* The requests of tests/persistence_test.rs: precision, kv_cache_seq_len, priority.
Requests ==
    { [precision |-> "BF16", kv_cache_seq_len |-> 1024, priority |-> 150],
      [precision |-> "E5M2", kv_cache_seq_len |-> 768, priority |-> 100] }

\* A request whose job has no sequence.
ZeroLengthRequest == [precision |-> "BF16", kv_cache_seq_len |-> 0, priority |-> 150]

JobOf(t, req) ==
    [job_id |-> t, precision |-> req.precision,
     kv_cache_seq_len |-> req.kv_cache_seq_len, parameters |-> <<>>]

(***************************************************************************)
(* Data model of the auction engine (services/gcam-node/src/lib.rs).       *)
(***************************************************************************)
PrecisionLevel == {"BF16", "FP8", "E5M2", "INT8"}

\* The default providers and routes written to an empty store.
SeedProviders ==
    << [slp_id |-> "slp-us-east-1",
        supported_precisions |-> {"BF16", "FP8", "E5M2", "INT8"},
        base_price |-> 1000, capacity |-> 100, utilization |-> 30,
        region |-> "US"],
       [slp_id |-> "slp-eu-west-1",
        supported_precisions |-> {"BF16", "FP8", "INT8"},
        base_price |-> 1200, capacity |-> 80, utilization |-> 20,
        region |-> "EU"] >>

SeedRoutes ==
    << [id |-> "route-flash-1", lane_id |-> 0,
        path |-> <<"node-1", "node-2">>, latency_ms |-> 50, cost |-> 100],
       [id |-> "route-deep-1", lane_id |-> 1,
        path |-> <<"node-3", "node-4", "node-5">>, latency_ms |-> 150, cost |-> 80] >>

\* Further routes a store can hold: a second route of lane 0 with the score
\* of route-flash-1, and a route of lane 1 with a lower score than route-deep-1.
FlashRoute2 ==
    [id |-> "route-flash-2", lane_id |-> 0, path |-> <<"node-6">>,
     latency_ms |-> 50, cost |-> 100]

DeepRoute2 ==
    [id |-> "route-deep-2", lane_id |-> 1, path |-> <<"node-7", "node-8">>,
     latency_ms |-> 40, cost |-> 80]

\* AuctionStats::default(); the two maps are functions on the keys present.
DefaultStats ==
    [total_auctions |-> 0, total_matches |-> 0, total_unmatched |-> 0,
     total_volume |-> 0, matches_by_precision |-> <<>>, matches_by_lane |-> <<>>]

can_handle(p, job) ==
    IF job.precision \notin p.supported_precisions THEN FALSE
    ELSE IF p.utilization >= p.capacity THEN FALSE
    ELSE TRUE

precision_multiplier(q) ==
    CASE q = "INT8" -> F64FromInt(1)
      [] q = "E5M2" -> F64Div(F64FromInt(12), F64FromInt(10))
      [] q = "FP8" -> F64Div(F64FromInt(15), F64FromInt(10))
      [] q = "BF16" -> F64FromInt(2)

calculate_price(p, job) ==
    LET price0 == p.base_price + job.kv_cache_seq_len * 10
        price1 == F64Trunc(F64Mul(F64FromInt(price0), precision_multiplier(job.precision)))
        utilization_factor ==
            F64Add(F64FromInt(1),
                   F64Mul(F64Div(F64FromInt(p.utilization), F64FromInt(p.capacity)),
                          F64Div(F64FromInt(5), F64FromInt(10))))
    IN F64Trunc(F64Mul(F64FromInt(price1), utilization_factor))

\* The prices of every (provider, job) pair that can arise, computed once:
\* price_of(p, job) = calculate_price(p, job).
PriceKeys ==
    {<<p.base_price, p.capacity, u, r.precision, r.kv_cache_seq_len>> :
        p \in {SeedProviders[i] : i \in 1..Len(SeedProviders)},
        u \in 0..(SeedProviders[1].capacity + MaxTasks),
        r \in Requests \cup {ZeroLengthRequest}}

PriceTable ==
    [k \in PriceKeys |->
        calculate_price([base_price |-> k[1], capacity |-> k[2], utilization |-> k[3]],
                        [precision |-> k[4], kv_cache_seq_len |-> k[5]])]

price_of(p, job) ==
    PriceTable[<<p.base_price, p.capacity, p.utilization, job.precision, job.kv_cache_seq_len>>]

score(r) ==
    F64Add(F64Div(F64FromInt(r.latency_ms), F64FromInt(1000)),
           F64Div(F64FromInt(r.cost), F64FromInt(1000000)))

\* The scores of every route that can arise, computed once:
\* score_of(r) = score(r).
ScoreKeys ==
    {<<r.latency_ms, r.cost>> :
        r \in {SeedRoutes[i] : i \in 1..Len(SeedRoutes)} \cup {FlashRoute2, DeepRoute2}}

ScoreTable == [k \in ScoreKeys |-> score([latency_ms |-> k[1], cost |-> k[2]])]

score_of(r) == ScoreTable[<<r.latency_ms, r.cost>>]

\* A sort that puts x before the elements whose key equals its own.
RECURSIVE InsertByKeyBeforeEqual(_, _)
InsertByKeyBeforeEqual(s, x) ==
    IF s = <<>> THEN <<x>>
    ELSE IF x.key <= s[1].key THEN <<x>> \o s
    ELSE <<s[1]>> \o InsertByKeyBeforeEqual(Tail(s), x)

\* Vec::sort_by_key is stable: x goes after every element whose key is <= its own.
RECURSIVE InsertByKey(_, _)
InsertByKey(s, x) ==
    IF s = <<>> THEN <<x>>
    ELSE IF x.key < s[1].key THEN <<x>> \o s
    ELSE <<s[1]>> \o InsertByKey(Tail(s), x)

RECURSIVE SortByKey(_)
SortByKey(s) ==
    IF s = <<>> THEN <<>>
    ELSE InsertByKey(SortByKey(SubSeq(s, 1, Len(s) - 1)), s[Len(s)])

\* The sorted candidates of match_job; <<>> stands for None.
match_job(provs, job) ==
    LET matches == SelectSeq(provs, LAMBDA p : can_handle(p, job))
        keyed == [i \in 1..Len(matches) |->
                    [key |-> price_of(matches[i], job), p |-> matches[i]]]
        sorted == SortByKey(keyed)
    IN [i \in 1..Len(sorted) |-> sorted[i].p]

\* A min_by that keeps the later of two elements of equal score.
RECURSIVE MinByScoreLast(_)
MinByScoreLast(rs) ==
    IF Len(rs) = 1 THEN rs[1]
    ELSE LET best == MinByScoreLast(SubSeq(rs, 1, Len(rs) - 1))
             last == rs[Len(rs)]
         IN IF F64Less(score_of(best), score_of(last)) THEN best ELSE last

\* Iterator::min_by keeps the earlier element unless a later one is strictly less.
RECURSIVE MinByScore(_)
MinByScore(rs) ==
    IF Len(rs) = 1 THEN rs[1]
    ELSE LET best == MinByScore(SubSeq(rs, 1, Len(rs) - 1))
             last == rs[Len(rs)]
         IN IF F64Less(score_of(last), score_of(best)) THEN last ELSE best

\* The chosen route as a one-element sequence; <<>> stands for None.
select_route(rts, priority) ==
    LET lane == IF priority >= 128 THEN 0 ELSE 1
        filtered_routes == SelectSeq(rts, LAMBDA r : r.lane_id = lane)
    IN IF filtered_routes = <<>>
       THEN (IF rts = <<>> THEN <<>> ELSE <<MinByScore(rts)>>)
       ELSE <<MinByScore(filtered_routes)>>

\* *map.entry(k).or_insert(0) += 1
MapIncrement(map, k) ==
    [x \in DOMAIN map \cup {k} |-> IF x = k THEN (IF k \in DOMAIN map THEN map[k] ELSE 0) + 1 ELSE map[x]]

\* map.get(k).copied().unwrap_or(0)
MapGet(map, k) == IF k \in DOMAIN map THEN map[k] ELSE 0

\* A stats block that counts the match but adds a unit instead of the price.
update_stats_unpriced(st, job, price, route) ==
    [st EXCEPT !.total_auctions = @ + 1,
               !.total_matches = @ + 1,
               !.total_volume = @ + 1,
               !.matches_by_precision = MapIncrement(@, job.precision),
               !.matches_by_lane = MapIncrement(@, route.lane_id)]

\* A stats block that counts the match but not the auction.
update_stats_uncounted(st, job, price, route) ==
    [st EXCEPT !.total_matches = @ + 1,
               !.total_volume = @ + price,
               !.matches_by_precision = MapIncrement(@, job.precision),
               !.matches_by_lane = MapIncrement(@, route.lane_id)]

\* The stats block of run_auction.
update_stats(st, job, price, route) ==
    [st EXCEPT !.total_auctions = @ + 1,
               !.total_matches = @ + 1,
               !.total_volume = @ + price,
               !.matches_by_precision = MapIncrement(@, job.precision),
               !.matches_by_lane = MapIncrement(@, route.lane_id)]

\* Index of the first provider with this slp_id, 0 when there is none.
FindProvider(provs, slp_id) ==
    IF \E i \in 1..Len(provs) : provs[i].slp_id = slp_id
    THEN CHOOSE i \in 1..Len(provs) :
            /\ provs[i].slp_id = slp_id
            /\ \A j \in 1..(i - 1) : provs[j].slp_id # slp_id
    ELSE 0

\* The utilization block of run_auction.
update_utilization(provs, provider) ==
    LET i == FindProvider(provs, provider.slp_id)
    IN IF i = 0 THEN provs
       ELSE [provs EXCEPT ![i].utilization = @ + 1]

(***************************************************************************)
(* The sled store: three trees (providers, routes, stats), each a function *)
(* from the keys present to a bincode record.  A tree iterates in byte     *)
(* order of its keys.  `db` is what the running process sees; `disk` is    *)
(* what survives a crash (the contents at the last flush).                 *)
(***************************************************************************)
\* All keys the engine ever writes, in ascending byte order.
KeyOrder ==
    <<"route-deep-1", "route-flash-1", "slp-eu-west-1", "slp-us-east-1", "stats">>

EmptyTree == [k \in {} |-> <<>>]

EmptyStore == [providers |-> EmptyTree, routes |-> EmptyTree, stats |-> EmptyTree]

TreeInsert(tree, k, v) ==
    [x \in DOMAIN tree \cup {k} |-> IF x = k THEN v ELSE tree[x]]

\* tree.iter(): the values in key order.
TreeIter(tree) ==
    LET keys == SelectSeq(KeyOrder, LAMBDA k : k \in DOMAIN tree)
    IN [i \in 1..Len(keys) |-> tree[keys[i]]]

\* bincode writes the fields of a struct in declaration order.
SerializeProvider(p) ==
    <<p.slp_id, p.supported_precisions, p.base_price, p.capacity, p.utilization, p.region>>

DeserializeProvider(b) ==
    [slp_id |-> b[1], supported_precisions |-> b[2], base_price |-> b[3],
     capacity |-> b[4], utilization |-> b[5], region |-> b[6]]

SerializeRoute(r) == <<r.id, r.lane_id, r.path, r.latency_ms, r.cost>>

DeserializeRoute(b) ==
    [id |-> b[1], lane_id |-> b[2], path |-> b[3], latency_ms |-> b[4], cost |-> b[5]]

SerializeStats(st) ==
    <<st.total_auctions, st.total_matches, st.total_unmatched, st.total_volume,
      st.matches_by_precision, st.matches_by_lane>>

DeserializeStats(b) ==
    [total_auctions |-> b[1], total_matches |-> b[2], total_unmatched |-> b[3],
     total_volume |-> b[4], matches_by_precision |-> b[5], matches_by_lane |-> b[6]]

\* The insert loop of save_providers / load_providers over the first n providers.
RECURSIVE InsertProviders(_, _, _)
InsertProviders(tree, provs, n) ==
    IF n = 0 THEN tree
    ELSE TreeInsert(InsertProviders(tree, provs, n - 1),
                    provs[n].slp_id, SerializeProvider(provs[n]))

RECURSIVE InsertRoutes(_, _, _)
InsertRoutes(tree, rts, n) ==
    IF n = 0 THEN tree
    ELSE TreeInsert(InsertRoutes(tree, rts, n - 1), rts[n].id, SerializeRoute(rts[n]))

\* A load that writes the seed set whatever the partition holds.
load_providers_reseed(tree) ==
    [providers |-> SeedProviders, seeded |-> TRUE,
     tree |-> InsertProviders(tree, SeedProviders, Len(SeedProviders))]

\* load_providers: the stored providers in key order, or the seed set, which
\* is then written and flushed.
load_providers(tree) ==
    LET items == TreeIter(tree)
        loaded == [i \in 1..Len(items) |-> DeserializeProvider(items[i])]
    IN IF loaded = <<>>
       THEN [providers |-> SeedProviders, seeded |-> TRUE,
             tree |-> InsertProviders(tree, SeedProviders, Len(SeedProviders))]
       ELSE [providers |-> loaded, seeded |-> FALSE, tree |-> tree]

load_routes(tree) ==
    LET items == TreeIter(tree)
        loaded == [i \in 1..Len(items) |-> DeserializeRoute(items[i])]
    IN IF loaded = <<>>
       THEN [routes |-> SeedRoutes, seeded |-> TRUE,
             tree |-> InsertRoutes(tree, SeedRoutes, Len(SeedRoutes))]
       ELSE [routes |-> loaded, seeded |-> FALSE, tree |-> tree]

load_stats(tree) ==
    IF "stats" \in DOMAIN tree THEN DeserializeStats(tree["stats"]) ELSE DefaultStats

\* AuctionEngine::new on a directory holding `store`: the in-memory working
\* set, the store as the process sees it, and the store contents on disk.
OpenEngine(store) ==
    LET lp == load_providers(store.providers)
        lr == load_routes(store.routes)
        seenStore == [providers |-> lp.tree, routes |-> lr.tree, stats |-> store.stats]
        \* tree.flush() after each seeding writes the whole store out.
        afterProviders == IF lp.seeded THEN [store EXCEPT !.providers = lp.tree] ELSE store
        afterRoutes == IF lr.seeded THEN seenStore ELSE afterProviders
    IN [providers |-> lp.providers, routes |-> lr.routes,
        stats |-> load_stats(store.stats), db |-> seenStore, disk |-> afterRoutes]

(***************************************************************************)
(* Sequential reference: one run_auction from entry to return with no      *)
(* other call in between and no storage failure.                           *)
(***************************************************************************)
NoMatchError == [ok |-> FALSE, kind |-> "InternalError", msg |-> "No matching providers found"]
NoRouteError == [ok |-> FALSE, kind |-> "InternalError", msg |-> "No route available"]
SaveProvidersError == [ok |-> FALSE, kind |-> "InternalError", msg |-> "Failed to save providers"]
SaveStatsError == [ok |-> FALSE, kind |-> "InternalError", msg |-> "Failed to save stats"]
FlushError == [ok |-> FALSE, kind |-> "Error", msg |-> "flush failed"]
FlushOk == [ok |-> TRUE, kind |-> "Flushed"]
Pending == [ok |-> FALSE, kind |-> "Pending"]

AuctionMatch(job, provider, route, price) ==
    [ok |-> TRUE, kind |-> "AuctionMatch", job_id |-> job.job_id,
     slp_id |-> provider.slp_id, lane_id |-> route.lane_id, price |-> price,
     route |-> route.path]

\* mem = [providers, routes, stats]
SeqAuction(mem, job, priority) ==
    LET matches == match_job(mem.providers, job)
        rt == select_route(mem.routes, priority)
    IN IF matches = <<>> THEN [mem |-> mem, result |-> NoMatchError]
       ELSE IF rt = <<>> THEN [mem |-> mem, result |-> NoRouteError]
       ELSE LET price == price_of(matches[1], job)
            IN [mem |-> [mem EXCEPT
                           !.stats = update_stats(@, job, price, rt[1]),
                           !.providers = update_utilization(@, matches[1])],
                result |-> AuctionMatch(job, matches[1], rt[1], price)]

\* save_providers followed by save_stats, both succeeding.
SaveAll(store, mem) ==
    [store EXCEPT
       !.providers = InsertProviders(@, mem.providers, Len(mem.providers)),
       !.stats = TreeInsert(@, "stats", SerializeStats(mem.stats))]

\* A directory left by an earlier run of the daemon: it was started on an
\* empty directory and served n E5M2 requests one after the other.  Only
\* slp-us-east-1 supports E5M2, so n of its free slots are taken.
WarmupJob == [job_id |-> 0, precision |-> "E5M2", kv_cache_seq_len |-> 768, parameters |-> <<>>]

FirstStart ==
    LET e == OpenEngine(EmptyStore)
    IN [mem |-> [providers |-> e.providers, routes |-> e.routes, stats |-> e.stats],
        store |-> e.disk]

\* Sum of the prices of WarmupJob on slp-us-east-1 at utilizations lo..hi.
RECURSIVE WarmupVolume(_, _)
WarmupVolume(lo, hi) ==
    IF lo > hi THEN 0
    ELSE IF lo = hi
    THEN calculate_price([SeedProviders[1] EXCEPT !.utilization = lo], WarmupJob)
    ELSE WarmupVolume(lo, (lo + hi) \div 2) + WarmupVolume((lo + hi) \div 2 + 1, hi)

\* The working set after those n requests (n within the free slots of
\* slp-us-east-1): each was matched to slp-us-east-1 at the price of the
\* utilization it found, routed on lane 1 (priority 100), and counted.
EarlierMem(n) ==
    LET u == SeedProviders[1].utilization
    IN IF n = 0 THEN FirstStart.mem
       ELSE [FirstStart.mem EXCEPT
               !.providers[1].utilization = u + n,
               !.stats = [total_auctions |-> n, total_matches |-> n,
                          total_unmatched |-> 0,
                          total_volume |-> WarmupVolume(u, u + n - 1),
                          matches_by_precision |-> [q \in {"E5M2"} |-> n],
                          matches_by_lane |-> [l \in {1} |-> n]]]

\* Every auction saved providers and stats, so the store holds the last state.
EarlierRun(n) == SaveAll(FirstStart.store, EarlierMem(n))

SeedFreeSlots == SeedProviders[1].capacity - SeedProviders[1].utilization

InitialStores ==
    {EmptyStore, EarlierRun(SeedFreeSlots - 1), EarlierRun(SeedFreeSlots)}

(***************************************************************************)
(* State.                                                                  *)
(***************************************************************************)
VARIABLES
    providers,    \* AuctionEngine.providers, a Vec<ComputeProvider>
    routes,       \* AuctionEngine.routes
    stats,        \* AuctionEngine.stats
    db,           \* the sled store as the running process sees it
    disk,         \* the sled store as a restart finds it
    calls,        \* per task: the call it runs, its position and its locals
    restarted,    \* history: the daemon has been restarted
    opened,       \* history: providers and stats as loaded by the running instance
    origin,       \* history: providers and stats as loaded by the first instance
    prev,         \* history: providers and stats of the previous instance when it stopped
    clean,        \* history: a flush() that ran with no other call in progress has
                  \* returned and no auction has started since
    active_jobs,  \* RouterState.lanes[i].active_jobs
    router_stats, \* RouterState.stats
    total_routed, \* RouterState.total_routed
    now,          \* the system clock, in seconds
    envelopes,    \* per task: the process_envelope call it runs
    router_origin, \* history: the router's counters at its start
    observer,     \* the get_stats call in progress and the RouterStats it returned
    runtime_stats, \* RuntimeState.stats
    executions,   \* per task: the process_envelope call of the runtime it runs
    engines,      \* two auction engines side by side: working set and result
    request,      \* the job and priority given to both
    runtimes,     \* two runtimes side by side: stats and the last answer of each
    codec,        \* one envelope: validated, sent over the wire, validated again
    gate,         \* one job before one compliance gate, and what each check said
    locks         \* one daemon's RwLocks: holders, waiters, and each request's position

auctionVars ==
    <<providers, routes, stats, db, disk, calls, restarted, opened, origin, prev, clean>>

routerVars == <<active_jobs, router_stats, total_routed, envelopes, router_origin, observer>>

runtimeVars == <<runtime_stats, executions>>

pairVars == <<engines, request, runtimes, codec, gate, locks>>

nonAuctionVars == <<routerVars, runtimeVars, pairVars, now>>

nonRouterVars == <<auctionVars, runtimeVars, pairVars>>

vars == <<auctionVars, routerVars, runtimeVars, pairVars, now>>

(***************************************************************************)
(* Envelopes (crates/gix-gxf/src/lib.rs) and the router's lanes             *)
(* (services/ajr-router/src/lib.rs).                                       *)
(***************************************************************************)
GXF_VERSION == 3

MaxTime == 1

\* serde_json::to_vec(&job): the fields of the job in declaration order.
SerializeJob(job) == <<job.job_id, job.precision, job.kv_cache_seq_len, job.parameters>>

\* GxfEnvelope::deserialize_job: the job, or <<>> for a Deserialization error.
deserialize_job(payload) ==
    IF Len(payload) = 4 /\ payload[2] \in PrecisionLevel
    THEN <<[job_id |-> payload[1], precision |-> payload[2],
            kv_cache_seq_len |-> payload[3], parameters |-> payload[4]]>>
    ELSE <<>>

\* A validate that accepts a job with no sequence.
job_validate_any_length(job) ==
    IF job.precision \notin PrecisionLevel THEN "InvalidPrecision" ELSE "Ok"

\* GxfJob::validate
job_validate(job) ==
    IF job.precision \notin PrecisionLevel THEN "InvalidPrecision"
    ELSE IF job.kv_cache_seq_len = 0 THEN "InvalidSequenceLength"
    ELSE "Ok"

\* A validate that does not look at expires_at.
meta_validate_unexpiring(meta, current_time) ==
    IF meta.schema_version # GXF_VERSION THEN "InvalidVersion" ELSE "Ok"

\* GxfMetadata::validate at clock reading current_time; expires_at is <<>> (None)
\* or a one-element sequence.
meta_validate(meta, current_time) ==
    IF meta.schema_version # GXF_VERSION THEN "InvalidVersion"
    ELSE IF meta.expires_at # <<>> /\ meta.expires_at[1] <= current_time THEN "Expired"
    ELSE IF meta.expires_at # <<>> /\ meta.expires_at[1] <= meta.created_at
    THEN "InvalidMetadata"
    ELSE "Ok"

\* GxfMetadata::is_expired at clock reading current_time.
is_expired(meta, current_time) ==
    IF meta.expires_at # <<>> THEN meta.expires_at[1] <= current_time ELSE FALSE

\* GxfEnvelope::validate
envelope_validate(env, current_time) ==
    IF meta_validate(env.meta, current_time) # "Ok" THEN meta_validate(env.meta, current_time)
    ELSE IF env.payload = <<>> THEN "InvalidPayload"
    ELSE IF deserialize_job(env.payload) = <<>> THEN "Deserialization"
    ELSE job_validate(deserialize_job(env.payload)[1])

\* GxfMetadata; each Option field is <<>> (None) or a one-element sequence.
Meta(version, priority, created_at, expires_at) ==
    [schema_version |-> version, priority |-> priority,
     created_at |-> created_at, expires_at |-> expires_at,
     source_slp |-> <<>>, target_lane |-> <<>>, additional_fields |-> <<>>]

RouterJob(t, len) ==
    [job_id |-> t, precision |-> "BF16", kv_cache_seq_len |-> len, parameters |-> <<>>]

\* A JSON object is the sequence of its <<key, value>> members.  The value of
\* a key as a one-element sequence, <<>> when the object has no such member.
JsonGet(obj, key) ==
    IF \E i \in 1..Len(obj) : obj[i][1] = key
    THEN <<obj[CHOOSE i \in 1..Len(obj) : obj[i][1] = key][2]>>
    ELSE <<>>

\* A member for an Option field: none when the field is None
\* (skip_serializing_if = "Option::is_none").
JsonOption(key, field) == IF field = <<>> THEN <<>> ELSE << <<key, field[1]>> >>

\* Serialize of GxfMetadata: the fields in declaration order.
meta_to_json(meta) ==
    << <<"schema_version", meta.schema_version>>,
       <<"priority", meta.priority>>,
       <<"created_at", meta.created_at>> >>
    \o JsonOption("expires_at", meta.expires_at)
    \o JsonOption("source_slp", meta.source_slp)
    \o JsonOption("target_lane", meta.target_lane)
    \o << <<"additional_fields", meta.additional_fields>> >>

\* A decoder that does not read the expires_at member.
meta_from_json_unexpiring(obj) ==
    IF \/ JsonGet(obj, "schema_version") = <<>>
       \/ JsonGet(obj, "priority") = <<>>
       \/ JsonGet(obj, "created_at") = <<>>
    THEN <<>>
    ELSE <<[schema_version |-> JsonGet(obj, "schema_version")[1],
            priority |-> JsonGet(obj, "priority")[1],
            created_at |-> JsonGet(obj, "created_at")[1],
            expires_at |-> <<>>,
            source_slp |-> JsonGet(obj, "source_slp"),
            target_lane |-> JsonGet(obj, "target_lane"),
            additional_fields |->
                IF JsonGet(obj, "additional_fields") = <<>> THEN <<>>
                ELSE JsonGet(obj, "additional_fields")[1]]>>

\* Deserialize of GxfMetadata (<<>> for a serde error): a missing Option
\* member is None, a missing additional_fields is the empty map
\* (serde(default)), any other missing member is an error.
meta_from_json(obj) ==
    IF \/ JsonGet(obj, "schema_version") = <<>>
       \/ JsonGet(obj, "priority") = <<>>
       \/ JsonGet(obj, "created_at") = <<>>
    THEN <<>>
    ELSE <<[schema_version |-> JsonGet(obj, "schema_version")[1],
            priority |-> JsonGet(obj, "priority")[1],
            created_at |-> JsonGet(obj, "created_at")[1],
            expires_at |-> JsonGet(obj, "expires_at"),
            source_slp |-> JsonGet(obj, "source_slp"),
            target_lane |-> JsonGet(obj, "target_lane"),
            additional_fields |->
                IF JsonGet(obj, "additional_fields") = <<>> THEN <<>>
                ELSE JsonGet(obj, "additional_fields")[1]]>>

\* GxfEnvelope::to_json and from_json (<<>> for a serde error): the envelope
\* as a JSON object of its two fields, or bytes that are no such object.
to_json(env) == <<"{", meta_to_json(env.meta), env.payload, "}">>

from_json(bytes) ==
    IF Len(bytes) = 4 /\ bytes[1] = "{" /\ bytes[4] = "}" /\ meta_from_json(bytes[2]) # <<>>
    THEN <<[meta |-> meta_from_json(bytes[2])[1], payload |-> bytes[3]]>>
    ELSE <<>>

NotJson == <<"not json">>

\* The envelopes task t may submit: well-formed ones on both sides of the
\* priority threshold, one that expires at time 1, and malformed ones.
EnvelopesOf(t) ==
    { [meta |-> Meta(GXF_VERSION, 150, 0, <<>>), payload |-> SerializeJob(RouterJob(t, 1024))],
      [meta |-> Meta(GXF_VERSION, 128, 0, <<>>), payload |-> SerializeJob(RouterJob(t, 1024))],
      [meta |-> Meta(GXF_VERSION, 127, 0, <<>>), payload |-> SerializeJob(RouterJob(t, 1024))],
      [meta |-> Meta(GXF_VERSION, 128, 0, <<1>>), payload |-> SerializeJob(RouterJob(t, 1024))],
      [meta |-> Meta(GXF_VERSION - 1, 128, 0, <<>>), payload |-> SerializeJob(RouterJob(t, 1024))],
      [meta |-> Meta(GXF_VERSION, 128, 0, <<>>), payload |-> <<>>],
      [meta |-> Meta(GXF_VERSION, 128, 0, <<>>), payload |-> SerializeJob(RouterJob(t, 0))] }

\* RouterState::new: the two lanes; lane id i is lanes[i + 1].
lanes ==
    << [id |-> 0, name |-> "Flash", capacity |-> 100],
       [id |-> 1, name |-> "Deep", capacity |-> 50] >>

\* The router after it has routed n0 envelopes to lane 0 and n1 to lane 1,
\* one after the other (RouterState::new when both are 0).
RouterAfter(n0, n1) ==
    [active_jobs |-> <<n0, n1>>,
     router_stats |-> [l \in {x \in {0, 1} : <<n0, n1>>[x + 1] > 0} |-> <<n0, n1>>[l + 1]],
     total_routed |-> n0 + n1]

IdleEnvelope ==
    [pc |-> "idle", envelope |-> <<>>, lane_index |-> 0, lane_id |-> 0,
     observed |-> <<>>, result |-> Pending]

\* No get_stats has been called.
IdleObserver == [pc |-> "idle", lane_stats |-> <<>>, total_routed |-> 0]

\* A router started as RouterAfter(n0, n1) left it, no request in progress.
RouterStart(n0, n1) ==
    /\ active_jobs = RouterAfter(n0, n1).active_jobs
    /\ router_stats = RouterAfter(n0, n1).router_stats
    /\ total_routed = RouterAfter(n0, n1).total_routed
    /\ router_origin = RouterAfter(n0, n1)
    /\ envelopes = [t \in Tasks |-> IdleEnvelope]
    /\ observer = IdleObserver

RouterIdle == RouterStart(0, 0)

(***************************************************************************)
(* The runtime (services/gsee-runtime/src/lib.rs).                         *)
(***************************************************************************)
\* RuntimeState::new
supported_precisions == <<"BF16", "FP8", "E5M2", "INT8">>

\* ShapeRequirements::default
shape_requirements == [max_sequence_length |-> 8192, max_batch_size |-> 32]

\* ResidencyRequirements::default; required_residency is <<>> (None).
residency_requirements == [allowed_regions |-> <<"US", "EU">>, required_residency |-> <<>>]

\* The strings in use that are decimal numerals, and the digits of each
\* one; every other string in use ("many") is no numeral.
Numerals ==
    "16" :> <<1, 6>> @@ "32" :> <<3, 2>> @@ "33" :> <<3, 3>> @@ "64" :> <<6, 4>>
    @@ "4294967296" :> <<4, 2, 9, 4, 9, 6, 7, 2, 9, 6>>

\* u32::MAX, 4294967295, in digits.
U32Max == <<4, 2, 9, 4, 9, 6, 7, 2, 9, 5>>

\* a <= b for two numbers in digits without leading zeros.
DigitsLeq(a, b) ==
    \/ Len(a) < Len(b)
    \/ /\ Len(a) = Len(b)
       /\ \/ a = b
          \/ \E i \in 1..Len(a) : a[i] < b[i] /\ \A j \in 1..(i - 1) : a[j] = b[j]

RECURSIVE DigitsValue(_)
DigitsValue(d) ==
    IF d = <<>> THEN 0 ELSE 10 * DigitsValue(SubSeq(d, 1, Len(d) - 1)) + d[Len(d)]

\* str::parse::<u32>: the number as a one-element sequence, <<>> for a
\* ParseIntError (no numeral, or a number above u32::MAX).
parse_u32(str) ==
    IF str \in DOMAIN Numerals /\ DigitsLeq(Numerals[str], U32Max)
    THEN <<DigitsValue(Numerals[str])>>
    ELSE <<>>

SeqContains(seq, x) == \E i \in 1..Len(seq) : seq[i] = x

\* RuntimeState::new: the requirements of the runtime.
new_runtime ==
    [supported_precisions |-> supported_precisions,
     shape_requirements |-> shape_requirements,
     residency_requirements |-> residency_requirements]

\* RuntimeState::check_precision ("Ok" or the ComplianceError); every
\* PrecisionLevel is_valid.
check_precision(self, job) ==
    IF ~SeqContains(self.supported_precisions, job.precision) THEN "PrecisionViolation"
    ELSE IF job.precision \notin PrecisionLevel THEN "PrecisionViolation"
    ELSE "Ok"

\* A ShapeRequirements::validate that takes any batch size that does not
\* parse for one above the maximum.
shape_validate_strict(self, job) ==
    IF job.kv_cache_seq_len > self.max_sequence_length THEN "ShapeViolation"
    ELSE IF /\ "batch_size" \in DOMAIN job.parameters
            /\ \/ parse_u32(job.parameters["batch_size"]) = <<>>
               \/ parse_u32(job.parameters["batch_size"])[1] > self.max_batch_size
    THEN "ShapeViolation"
    ELSE "Ok"

\* ShapeRequirements::validate
shape_validate(self, job) ==
    IF job.kv_cache_seq_len > self.max_sequence_length THEN "ShapeViolation"
    ELSE IF /\ "batch_size" \in DOMAIN job.parameters
            /\ parse_u32(job.parameters["batch_size"]) # <<>>
            /\ parse_u32(job.parameters["batch_size"])[1] > self.max_batch_size
    THEN "ShapeViolation"
    ELSE "Ok"

\* RuntimeState::check_shape
check_shape(self, job) == shape_validate(self.shape_requirements, job)

\* A ResidencyRequirements::validate that lets a job without a residency
\* parameter pass.
residency_validate_lenient(self, job) ==
    IF /\ "region" \in DOMAIN job.parameters
       /\ ~SeqContains(self.allowed_regions, job.parameters["region"])
    THEN "ResidencyViolation"
    ELSE IF self.required_residency # <<>>
    THEN (IF "residency" \in DOMAIN job.parameters
          THEN (IF job.parameters["residency"] # self.required_residency[1]
                THEN "ResidencyViolation" ELSE "Ok")
          ELSE "Ok")
    ELSE "Ok"

\* ResidencyRequirements::validate
residency_validate(self, job) ==
    IF /\ "region" \in DOMAIN job.parameters
       /\ ~SeqContains(self.allowed_regions, job.parameters["region"])
    THEN "ResidencyViolation"
    ELSE IF self.required_residency # <<>>
    THEN (IF "residency" \in DOMAIN job.parameters
          THEN (IF job.parameters["residency"] # self.required_residency[1]
                THEN "ResidencyViolation" ELSE "Ok")
          ELSE "ResidencyViolation")
    ELSE "Ok"

\* RuntimeState::check_residency
check_residency(self, job) == residency_validate(self.residency_requirements, job)

\* A compliance gate that does not look at the residency.
check_compliance_shape_only(self, job) ==
    IF check_precision(self, job) # "Ok" THEN check_precision(self, job)
    ELSE check_shape(self, job)

\* A compliance gate that checks the residency before the shape.
check_compliance_residency_first(self, job) ==
    IF check_precision(self, job) # "Ok" THEN check_precision(self, job)
    ELSE IF check_residency(self, job) # "Ok" THEN check_residency(self, job)
    ELSE check_shape(self, job)

\* RuntimeState::check_compliance
check_compliance(self, job) ==
    IF check_precision(self, job) # "Ok" THEN check_precision(self, job)
    ELSE IF check_shape(self, job) # "Ok" THEN check_shape(self, job)
    ELSE check_residency(self, job)

\* gix_crypto::hash_blake3: the digest of these bytes, a function of the
\* bytes alone (no key, no salt) with distinct digests for distinct inputs.
hash_blake3(input) == <<"blake3", input>>

\* A simulate_execution that hashes the whole job, not its job_id.
simulate_execution_whole_job(job) ==
    [job_id |-> job.job_id, status |-> "Completed",
     duration_ms |-> (job.kv_cache_seq_len + 999) \div 1000 + 10,
     output_hash |-> hash_blake3(<<job.job_id, job.precision, job.kv_cache_seq_len,
                                   job.parameters>>)]

\* RuntimeState::simulate_execution: the sleep of ceil(len / 1000) + 10 ms
\* and the result, always Completed.
simulate_execution(job) ==
    [job_id |-> job.job_id, status |-> "Completed",
     duration_ms |-> (job.kv_cache_seq_len + 999) \div 1000 + 10,
     output_hash |-> hash_blake3(job.job_id)]

\* ExecutionStats::default
DefaultExecutionStats ==
    [total_executed |-> 0, total_completed |-> 0, total_failed |-> 0, total_rejected |-> 0,
     jobs_by_precision |-> [q \in {} |-> 0]]

RuntimeJob(t, precision, len, parameters) ==
    [job_id |-> t, precision |-> precision, kv_cache_seq_len |-> len,
     parameters |-> parameters]

\* The jobs task t may send to the runtime: compliant ones (no parameters, an
\* allowed region with a batch size at the limit, the longest sequence with a
\* batch size that does not parse) and one for each way of failing the gate.
RuntimeJobsOf(t) ==
    { RuntimeJob(t, "BF16", 1024, <<>>),
      RuntimeJob(t, "E5M2", 768, [k \in {"region", "batch_size"} |->
                                     IF k = "region" THEN "EU" ELSE "32"]),
      RuntimeJob(t, "INT8", 8192, [k \in {"batch_size"} |-> "many"]),
      RuntimeJob(t, "BF16", 1024, [k \in {"region"} |-> "APAC"]),
      RuntimeJob(t, "FP8", 8193, <<>>),
      RuntimeJob(t, "BF16", 1024, [k \in {"region", "batch_size"} |->
                                      IF k = "region" THEN "US" ELSE "64"]) }

\* The envelopes task t may send to the runtime: each job with priority 128
\* and no expiry, and one envelope that expires at time 1, one of another
\* schema version and one whose job has no sequence.
RuntimeEnvelopesOf(t) ==
    {[meta |-> Meta(GXF_VERSION, 128, 0, <<>>), payload |-> SerializeJob(job)] :
        job \in RuntimeJobsOf(t)}
    \cup
    { [meta |-> Meta(GXF_VERSION, 128, 0, <<1>>),
       payload |-> SerializeJob(RuntimeJob(t, "BF16", 1024, <<>>))],
      [meta |-> Meta(GXF_VERSION - 1, 128, 0, <<>>),
       payload |-> SerializeJob(RuntimeJob(t, "BF16", 1024, <<>>))],
      [meta |-> Meta(GXF_VERSION, 128, 0, <<>>),
       payload |-> SerializeJob(RuntimeJob(t, "BF16", 0, <<>>))] }

IdleExecution ==
    [pc |-> "idle", envelope |-> <<>>, job |-> <<>>, simulated |-> FALSE, result |-> Pending]

\* RuntimeState::new, no request in progress.
RuntimeIdle ==
    /\ runtime_stats = DefaultExecutionStats
    /\ executions = [t \in Tasks |-> IdleExecution]

(***************************************************************************)
(* Two auction engines side by side, for what run_auction computes from    *)
(* its provider list, its route list, the job and the priority.            *)
(***************************************************************************)
Engines == {1, 2}

\* No pair of engines is set up.
PairIdle ==
    /\ engines = <<>>
    /\ request = <<>>
    /\ runtimes = <<>>
    /\ codec = <<>>
    /\ gate = <<>>
    /\ locks = <<>>

IdleCall ==
    [op |-> "none", pc |-> "idle", job |-> <<>>, priority |-> 0, provider |-> <<>>,
     price |-> 0, route |-> <<>>, result |-> Pending, current |-> FALSE, faulted |-> FALSE,
     alone |-> FALSE, envelope |-> <<>>]

Quiescent(c) == c.pc \in {"idle", "done", "killed"}

\* Task t has sent its request, to whichever daemon.
Begun(t) ==
    \/ calls[t].pc # "idle"
    \/ envelopes[t].pc # "idle"
    \/ executions[t].pc # "idle"

\* The daemon has been started on a directory holding `store`.
AuctionStart(store) ==
    LET e == OpenEngine(store)
    IN /\ providers = e.providers
       /\ routes = e.routes
       /\ stats = e.stats
       /\ db = e.db
       /\ disk = e.disk
       /\ calls = [t \in Tasks |-> IdleCall]
       /\ restarted = FALSE
       /\ opened = [providers |-> e.providers, stats |-> e.stats]
       /\ origin = [providers |-> e.providers, stats |-> e.stats]
       /\ prev = [providers |-> e.providers, stats |-> e.stats, clean |-> FALSE]
       /\ clean = FALSE

AuctionInit ==
    /\ \E store \in InitialStores : AuctionStart(store)
    /\ RouterIdle
    /\ now = 0
    /\ RuntimeIdle
    /\ PairIdle

(***************************************************************************)
(* run_auction, one action per critical section or storage operation.      *)
(***************************************************************************)
\* Entry, match_job under the providers read lock with the price of
\* matches[0], and select_route under the routes read lock (the routes never
\* change after construction, so the two reads are taken as one step).
MatchStep(c, job, priority) ==
    LET matches == match_job(providers, job)
        rt == select_route(routes, priority)
        entered == [c EXCEPT !.op = "auction", !.job = <<job>>,
                             !.priority = priority, !.current = TRUE]
    IN IF matches = <<>>
       THEN [entered EXCEPT !.pc = "done", !.result = NoMatchError]
       ELSE IF rt = <<>>
       THEN [entered EXCEPT !.pc = "done", !.result = NoRouteError]
       ELSE [entered EXCEPT !.pc = "update_stats",
                            !.provider = <<matches[1]>>,
                            !.price = price_of(matches[1], job),
                            !.route = rt]

\* A run_auction that counts the auction it could not match.
MatchJobCountingUnmatched(t) ==
    /\ calls[t].pc = "idle"
    /\ \A u \in 1..(t - 1) : calls[u].pc # "idle"
    /\ \E req \in Requests :
         /\ calls' = [u \in Tasks |->
                IF u # t THEN [calls[u] EXCEPT !.alone = FALSE]
                ELSE MatchStep(calls[t], JobOf(t, req), req.priority)]
         /\ stats' = IF match_job(providers, JobOf(t, req)) = <<>>
                     THEN [stats EXCEPT !.total_auctions = @ + 1, !.total_unmatched = @ + 1]
                     ELSE stats
    /\ clean' = FALSE
    /\ UNCHANGED <<providers, routes, db, disk, restarted, opened, origin, prev>>
    /\ UNCHANGED nonAuctionVars

\* run_auction called with a job and a priority (the RPC of the daemon).
MatchJob(t) ==
    /\ calls[t].pc = "idle"
    /\ \A u \in 1..(t - 1) : calls[u].pc # "idle"
    /\ \E req \in Requests :
         calls' = [u \in Tasks |->
                IF u # t THEN [calls[u] EXCEPT !.alone = FALSE]
                ELSE MatchStep(calls[t], JobOf(t, req), req.priority)]
    /\ clean' = FALSE
    /\ UNCHANGED <<providers, routes, stats, db, disk, restarted, opened, origin, prev>>
    /\ UNCHANGED nonAuctionVars

\* The stats block, under the stats write lock.
UpdateStats(t) ==
    /\ calls[t].pc = "update_stats"
    /\ stats' = update_stats(stats, calls[t].job[1], calls[t].price, calls[t].route[1])
    /\ calls' = [calls EXCEPT ![t].pc = "update_utilization"]
    /\ UNCHANGED <<providers, routes, db, disk, restarted, opened, origin, prev, clean>>
    /\ UNCHANGED nonAuctionVars

\* The utilization block, under the providers write lock.
UpdateUtilization(t) ==
    /\ calls[t].pc = "update_utilization"
    /\ providers' = update_utilization(providers, calls[t].provider[1])
    /\ calls' = [calls EXCEPT ![t].pc = "save_providers"]
    /\ UNCHANGED <<routes, stats, db, disk, restarted, opened, origin, prev, clean>>
    /\ UNCHANGED nonAuctionVars

\* save_providers, under the providers read lock from the first insert to the
\* end of tree.flush(): the records are written and the store is flushed.  (A
\* crash between the inserts and the flush leaves on disk what a crash before
\* or after the whole step leaves, as the background flusher ran or not.)
SaveProviders(t) ==
    /\ calls[t].pc = "save_providers"
    /\ db' = [db EXCEPT !.providers = InsertProviders(@, providers, Len(providers))]
    /\ disk' = db'
    /\ calls' = [calls EXCEPT ![t].pc = "save_stats"]
    /\ UNCHANGED <<providers, routes, stats, restarted, opened, origin, prev, clean>>
    /\ UNCHANGED nonAuctionVars

\* What run_auction returns once both saves have succeeded.
AuctionReturn(c) == AuctionMatch(c.job[1], c.provider[1], c.route[1], c.price)

\* A save_stats that returns without waiting for the flush.
SaveStatsUnsynced(t) ==
    /\ calls[t].pc = "save_stats"
    /\ db' = [db EXCEPT !.stats = TreeInsert(@, "stats", SerializeStats(stats))]
    /\ calls' = [calls EXCEPT ![t] =
           IF @.op = "auction"
           THEN [@ EXCEPT !.pc = "done", !.result = AuctionReturn(calls[t])]
           ELSE [@ EXCEPT !.pc = "flush_db"]]
    /\ UNCHANGED <<providers, routes, stats, disk, restarted, opened, origin, prev, clean>>
    /\ UNCHANGED nonAuctionVars

\* A save_stats that writes the stats the instance loaded, with the call's
\* own auction added: a snapshot taken without the other calls.
SaveStatsOwnSnapshot(t) ==
    /\ calls[t].pc = "save_stats"
    /\ db' = [db EXCEPT !.stats =
               TreeInsert(@, "stats",
                          SerializeStats(IF calls[t].op = "auction"
                                         THEN update_stats(opened.stats, calls[t].job[1],
                                                           calls[t].price, calls[t].route[1])
                                         ELSE opened.stats))]
    /\ disk' = db'
    /\ calls' = [calls EXCEPT ![t] =
           IF @.op = "auction"
           THEN [@ EXCEPT !.pc = "done", !.result = AuctionReturn(calls[t])]
           ELSE [@ EXCEPT !.pc = "flush_db"]]
    /\ UNCHANGED <<providers, routes, stats, restarted, opened, origin, prev, clean>>
    /\ UNCHANGED nonAuctionVars

\* save_stats, under the stats read lock: the record is written and the store
\* is flushed; run_auction then returns the match, flush() goes on.
SaveStats(t) ==
    /\ calls[t].pc = "save_stats"
    /\ db' = [db EXCEPT !.stats = TreeInsert(@, "stats", SerializeStats(stats))]
    /\ disk' = db'
    /\ calls' = [calls EXCEPT ![t] =
           IF @.op = "auction"
           THEN [@ EXCEPT !.pc = "done", !.result = AuctionReturn(calls[t])]
           ELSE [@ EXCEPT !.pc = "flush_db"]]
    /\ UNCHANGED <<providers, routes, stats, restarted, opened, origin, prev, clean>>
    /\ UNCHANGED nonAuctionVars

\* AuctionEngine::flush: save_providers, save_stats, db.flush_async.
BeginFlush(t) ==
    /\ calls[t].pc = "idle"
    /\ \A u \in 1..(t - 1) : calls[u].pc # "idle"
    /\ calls' = [u \in Tasks |->
           IF u # t THEN [calls[u] EXCEPT !.alone = FALSE]
           ELSE [calls[t] EXCEPT !.op = "flush", !.pc = "save_providers", !.current = TRUE,
                                 !.alone = \A v \in Tasks \ {t} : Quiescent(calls[v])]]
    /\ UNCHANGED <<providers, routes, stats, db, disk, restarted, opened, origin, prev, clean>>
    /\ UNCHANGED nonAuctionVars

FlushDb(t) ==
    /\ calls[t].pc = "flush_db"
    /\ disk' = db
    /\ calls' = [calls EXCEPT ![t] = [@ EXCEPT !.pc = "done", !.result = FlushOk]]
    /\ clean' = calls[t].alone
    /\ UNCHANGED <<providers, routes, stats, db, restarted, opened, origin, prev>>
    /\ UNCHANGED nonAuctionVars

\* A run_auction that drops the error of a save and returns the match.
StorageErrorDropped(c) ==
    IF c.op = "flush" THEN FlushError ELSE AuctionReturn(c)

\* The error a failed storage operation turns into at this position.
StorageError(c) ==
    IF c.op = "flush" THEN FlushError
    ELSE IF c.pc = "save_providers" THEN SaveProvidersError
    ELSE SaveStatsError

\* A storage operation (open_tree, insert, flush) fails: the error is returned
\* at once.  The records inserted before the failure stay in the store
\* unflushed: the first n providers (all of them when it is the flush that
\* fails), or the stats record.
StorageFault(t) ==
    /\ calls[t].pc \in {"save_providers", "save_stats", "flush_db"}
    /\ \E n \in 0..Len(providers) :
         db' = IF calls[t].pc = "save_providers"
               THEN [db EXCEPT !.providers = InsertProviders(@, providers, n)]
               ELSE IF calls[t].pc = "save_stats" /\ n > 0
               THEN [db EXCEPT !.stats = TreeInsert(@, "stats", SerializeStats(stats))]
               ELSE db
    /\ calls' = [calls EXCEPT ![t] = [@ EXCEPT !.pc = "done", !.faulted = TRUE,
                                               !.result = StorageError(calls[t])]]
    /\ UNCHANGED <<providers, routes, stats, disk, restarted, opened, origin, prev, clean>>
    /\ UNCHANGED nonAuctionVars

\* sled's background flusher (flush_every_ms) writes the store out.
BackgroundFlush ==
    /\ disk # db
    /\ disk' = db
    /\ UNCHANGED <<providers, routes, stats, db, calls, restarted, opened, origin, prev, clean>>
    /\ UNCHANGED nonAuctionVars

\* The process dies (every call in progress is lost) and the daemon is started
\* again on the same directory.
CrashAndReopen ==
    /\ LET e == OpenEngine(disk)
       IN /\ providers' = e.providers
          /\ routes' = e.routes
          /\ stats' = e.stats
          /\ db' = e.db
          /\ disk' = e.disk
          /\ opened' = [providers |-> e.providers, stats |-> e.stats]
    /\ calls' = [t \in Tasks |->
                   [calls[t] EXCEPT !.current = FALSE,
                                    !.pc = IF Quiescent(calls[t]) THEN @ ELSE "killed"]]
    /\ prev' = [providers |-> providers, stats |-> stats, clean |-> clean]
    /\ restarted' = TRUE
    /\ clean' = FALSE
    /\ UNCHANGED origin
    /\ UNCHANGED nonAuctionVars

\* The job bytes task t may send to the RunAuction RPC: the JSON of each
\* request's job, of a job with no sequence, and bytes that are no job.
RpcJobsOf(t) ==
    {SerializeJob(JobOf(t, req)) : req \in Requests \cup {ZeroLengthRequest}}
    \cup {<<"not a job">>}

\* The priorities of the RPC's request, a u32.
RpcPriorities == {150, 356}

InvalidJobStatus == [ok |-> FALSE, kind |-> "Status", msg |-> "Invalid job"]

\* AuctionServiceImpl::run_auction: serde_json::from_slice on the job bytes,
\* then run_auction with the job and `priority as u8`, up to select_route;
\* no validation of the job in between.
RunAuctionRpc(t) ==
    /\ calls[t].pc = "idle"
    /\ \A u \in 1..(t - 1) : calls[u].pc # "idle"
    /\ \E bytes \in RpcJobsOf(t), priority \in RpcPriorities :
         calls' = [u \in Tasks |->
                IF u # t THEN [calls[u] EXCEPT !.alone = FALSE]
                ELSE IF deserialize_job(bytes) = <<>>
                THEN [calls[t] EXCEPT !.op = "auction", !.pc = "done", !.current = TRUE,
                                      !.result = InvalidJobStatus]
                ELSE MatchStep(calls[t], deserialize_job(bytes)[1], priority % 256)]
    /\ clean' = FALSE
    /\ UNCHANGED <<providers, routes, stats, db, disk, restarted, opened, origin, prev>>
    /\ UNCHANGED nonAuctionVars

\* The request is cancelled while run_auction waits for a lock: the future is
\* dropped where it stands (before the stats block, before the utilization
\* block, in save_providers or in save_stats) and nothing is undone.
Cancel(t) ==
    /\ calls[t].op = "auction"
    /\ calls[t].pc \in {"update_stats", "update_utilization", "save_providers", "save_stats"}
    /\ calls' = [calls EXCEPT ![t].pc = "cancelled"]
    /\ UNCHANGED <<providers, routes, stats, db, disk, restarted, opened, origin, prev, clean>>
    /\ UNCHANGED nonAuctionVars

\* The daemon on an empty directory, serving RunAuction requests.
RpcInit ==
    /\ AuctionStart(EmptyStore)
    /\ RouterIdle
    /\ now = 0
    /\ RuntimeIdle
    /\ PairIdle

RpcNext ==
    \/ \E t \in Tasks : RunAuctionRpc(t)
    \/ \E t \in Tasks : UpdateStats(t)
    \/ \E t \in Tasks : UpdateUtilization(t)
    \/ \E t \in Tasks : SaveProviders(t)
    \/ \E t \in Tasks : SaveStats(t)
    \/ \E t \in Tasks : Cancel(t)

SpecRpc == RpcInit /\ [][RpcNext]_vars

AuctionNext ==
    \/ \E t \in Tasks : MatchJob(t)
    \/ \E t \in Tasks : UpdateStats(t)
    \/ \E t \in Tasks : UpdateUtilization(t)
    \/ \E t \in Tasks : SaveProviders(t)
    \/ \E t \in Tasks : SaveStats(t)
    \/ \E t \in Tasks : BeginFlush(t)
    \/ \E t \in Tasks : FlushDb(t)
    \/ \E t \in Tasks : StorageFault(t)
    \/ BackgroundFlush
    \/ CrashAndReopen

SpecAuction == AuctionInit /\ [][AuctionNext]_vars

(***************************************************************************)
(* process_envelope of the router, one action per lock acquisition.  The   *)
(* clock is read by validate() and again by is_expired().                  *)
(***************************************************************************)
RouterOk(lane_id) == [ok |-> TRUE, kind |-> "LaneId", lane_id |-> lane_id]

\* anyhow!("msg: {}", e): the message and the error e it was made from.
RouterError(msg, cause) == [ok |-> FALSE, kind |-> "Error", msg |-> msg, cause |-> cause]

\* The RPC's answer to bytes that are no envelope.
FromJsonError ==
    [ok |-> FALSE, kind |-> "Status", msg |-> "Invalid envelope", cause |-> "Deserialization"]

\* RouterServiceImpl::route_envelope: the gRPC status code of the answer.
RpcStatus(result) ==
    IF result.ok THEN "Ok"
    ELSE IF result = FromJsonError THEN "InvalidArgument"
    ELSE "Internal"

\* The bytes task t may send: every envelope of EnvelopesOf(t), or no envelope.
RequestsOf(t) == {to_json(env) : env \in EnvelopesOf(t)} \cup {NotJson}

\* An entry that counts the request in total_routed before validating it.
ReceiveEnvelopeCounted(t) ==
    /\ ~Begun(t)
    /\ \A u \in 1..(t - 1) : Begun(u)
    /\ \E bytes \in RequestsOf(t) :
         LET parsed == from_json(bytes)
         IN envelopes' = [envelopes EXCEPT ![t] =
             IF parsed = <<>>
             THEN [@ EXCEPT !.pc = "done", !.result = FromJsonError]
             ELSE IF envelope_validate(parsed[1], now) # "Ok"
             THEN [@ EXCEPT !.pc = "done", !.envelope = parsed,
                            !.result = RouterError("Envelope validation failed",
                                                   envelope_validate(parsed[1], now))]
             ELSE [@ EXCEPT !.pc = "check_expired", !.envelope = parsed]]
    /\ total_routed' = total_routed + 1
    /\ UNCHANGED <<active_jobs, router_stats, now, router_origin, observer>>
    /\ UNCHANGED nonRouterVars

\* Entry of the RPC (from_json) and of process_envelope (envelope.validate()).
ReceiveEnvelope(t) ==
    /\ ~Begun(t)
    /\ \A u \in 1..(t - 1) : Begun(u)
    /\ \E bytes \in RequestsOf(t) :
         LET parsed == from_json(bytes)
         IN envelopes' = [envelopes EXCEPT ![t] =
             IF parsed = <<>>
             THEN [@ EXCEPT !.pc = "done", !.result = FromJsonError]
             ELSE IF envelope_validate(parsed[1], now) # "Ok"
             THEN [@ EXCEPT !.pc = "done", !.envelope = parsed,
                            !.result = RouterError("Envelope validation failed",
                                                   envelope_validate(parsed[1], now))]
             ELSE [@ EXCEPT !.pc = "check_expired", !.envelope = parsed]]
    /\ UNCHANGED <<active_jobs, router_stats, total_routed, now, router_origin, observer>>
    /\ UNCHANGED nonRouterVars

\* is_expired(), deserialize_job() and job.validate().
CheckExpired(t) ==
    /\ envelopes[t].pc = "check_expired"
    /\ LET env == envelopes[t].envelope[1]
           job == deserialize_job(env.payload)
       IN envelopes' = [envelopes EXCEPT ![t] =
              IF is_expired(env.meta, now)
              THEN [@ EXCEPT !.pc = "done", !.result = RouterError("Envelope expired", "Expired")]
              ELSE IF job = <<>>
              THEN [@ EXCEPT !.pc = "done",
                             !.result = RouterError("Failed to deserialize job", "Deserialization")]
              ELSE IF job_validate(job[1]) # "Ok"
              THEN [@ EXCEPT !.pc = "done",
                             !.result = RouterError("Job validation failed", job_validate(job[1]))]
              ELSE [@ EXCEPT !.pc = "select_lane"]]
    /\ UNCHANGED <<active_jobs, router_stats, total_routed, now, router_origin, observer>>
    /\ UNCHANGED nonRouterVars

\* A select_lane that sends only priorities above 128 to lane 0.
primary_lane_above(priority) == IF priority > 128 THEN 0 ELSE 1

\* The lane index select_lane starts from.
primary_lane(priority) == IF priority >= 128 THEN 0 ELSE 1

\* select_lane: the lane index of the priority and the read of that lane's
\* active_jobs.
SelectLane(t) ==
    /\ envelopes[t].pc = "select_lane"
    /\ LET lane_index == primary_lane(envelopes[t].envelope[1].meta.priority)
           lane == lanes[lane_index + 1]
           active == active_jobs[lane_index + 1]
       IN envelopes' = [envelopes EXCEPT ![t] =
              IF lane_index >= Len(lanes)
              THEN [@ EXCEPT !.pc = "done",
                             !.result = RouterError("Lane selection failed", "InternalError")]
              ELSE IF active >= lane.capacity
              THEN [@ EXCEPT !.pc = "select_fallback", !.lane_index = lane_index,
                             !.observed = <<active>>]
              ELSE [@ EXCEPT !.pc = "route_stats", !.lane_index = lane_index,
                             !.lane_id = lane.id, !.observed = <<active>>]]
    /\ UNCHANGED <<active_jobs, router_stats, total_routed, now, router_origin, observer>>
    /\ UNCHANGED nonRouterVars

\* A select_lane that returns the fallback lane without reading its occupancy.
SelectFallbackUnchecked(t) ==
    /\ envelopes[t].pc = "select_fallback"
    /\ LET fallback_index == IF envelopes[t].lane_index = 0 THEN 1 ELSE 0
       IN envelopes' = [envelopes EXCEPT ![t] =
              [@ EXCEPT !.pc = "route_stats", !.lane_id = lanes[fallback_index + 1].id,
                        !.observed = Append(@, active_jobs[fallback_index + 1])]]
    /\ UNCHANGED <<active_jobs, router_stats, total_routed, now, router_origin, observer>>
    /\ UNCHANGED nonRouterVars

\* select_lane: the read of the fallback lane's active_jobs.
SelectFallback(t) ==
    /\ envelopes[t].pc = "select_fallback"
    /\ LET fallback_index == IF envelopes[t].lane_index = 0 THEN 1 ELSE 0
           fallback_lane == lanes[fallback_index + 1]
           fallback_active == active_jobs[fallback_index + 1]
       IN envelopes' = [envelopes EXCEPT ![t] =
              IF fallback_index < Len(lanes) /\ fallback_active < fallback_lane.capacity
              THEN [@ EXCEPT !.pc = "route_stats", !.lane_id = fallback_lane.id,
                             !.observed = Append(@, fallback_active)]
              ELSE [@ EXCEPT !.pc = "done", !.observed = Append(@, fallback_active),
                             !.result = RouterError("Lane selection failed", "InternalError")]]
    /\ UNCHANGED <<active_jobs, router_stats, total_routed, now, router_origin, observer>>
    /\ UNCHANGED nonRouterVars

\* route_envelope: the stats block, under the stats write lock, which is not
\* granted while get_stats holds the read lock.
RouteStats(t) ==
    /\ envelopes[t].pc = "route_stats"
    /\ observer.pc # "read_total"
    /\ router_stats' = MapIncrement(router_stats, envelopes[t].lane_id)
    /\ envelopes' = [envelopes EXCEPT ![t].pc = "route_total"]
    /\ UNCHANGED <<active_jobs, total_routed, now, router_origin, observer>>
    /\ UNCHANGED nonRouterVars

\* route_envelope: the total_routed block.
RouteTotal(t) ==
    /\ envelopes[t].pc = "route_total"
    /\ total_routed' = total_routed + 1
    /\ envelopes' = [envelopes EXCEPT ![t].pc = "route_active"]
    /\ UNCHANGED <<active_jobs, router_stats, now, router_origin, observer>>
    /\ UNCHANGED nonRouterVars

\* route_envelope: the active_jobs block of the lane with this id, and return.
RouteActive(t) ==
    /\ envelopes[t].pc = "route_active"
    /\ active_jobs' =
         IF \E i \in 1..Len(lanes) : lanes[i].id = envelopes[t].lane_id
         THEN LET i == CHOOSE i \in 1..Len(lanes) : lanes[i].id = envelopes[t].lane_id
              IN [active_jobs EXCEPT ![i] = @ + 1]
         ELSE active_jobs
    /\ envelopes' = [envelopes EXCEPT ![t] =
           [@ EXCEPT !.pc = "done", !.result = RouterOk(envelopes[t].lane_id)]]
    /\ UNCHANGED <<router_stats, total_routed, now, router_origin, observer>>
    /\ UNCHANGED nonRouterVars

\* A second passes.
Tick ==
    /\ now < MaxTime
    /\ now' = now + 1
    /\ UNCHANGED routerVars
    /\ UNCHANGED nonRouterVars

\* The router has routed envelopes before: none, all but one slot of a lane,
\* or every slot of a lane.
RouterInit ==
    /\ AuctionStart(EmptyStore)
    /\ \E n0 \in {0, lanes[1].capacity - 1, lanes[1].capacity},
          n1 \in {0, lanes[2].capacity - 1, lanes[2].capacity} : RouterStart(n0, n1)
    /\ now = 0
    /\ RuntimeIdle
    /\ PairIdle

\* get_stats: the stats read lock is taken; the map is what the call returns
\* as lane_stats, since no writer gets the lock before the call ends.
GetStatsLock ==
    /\ observer.pc \in {"idle", "done"}
    /\ observer' = [pc |-> "read_total", lane_stats |-> router_stats, total_routed |-> 0]
    /\ UNCHANGED <<active_jobs, router_stats, total_routed, envelopes, now, router_origin>>
    /\ UNCHANGED nonRouterVars

\* get_stats: total_routed is read under its read lock and the RouterStats
\* is returned.
GetStatsTotal ==
    /\ observer.pc = "read_total"
    /\ observer' = [observer EXCEPT !.pc = "done", !.total_routed = total_routed]
    /\ UNCHANGED <<active_jobs, router_stats, total_routed, envelopes, now, router_origin>>
    /\ UNCHANGED nonRouterVars

RouterNext ==
    \/ \E t \in Tasks : ReceiveEnvelope(t)
    \/ \E t \in Tasks : CheckExpired(t)
    \/ \E t \in Tasks : SelectLane(t)
    \/ \E t \in Tasks : SelectFallback(t)
    \/ \E t \in Tasks : RouteStats(t)
    \/ \E t \in Tasks : RouteTotal(t)
    \/ \E t \in Tasks : RouteActive(t)
    \/ Tick

SpecRouter == RouterInit /\ [][RouterNext]_vars

\* The router with lane 0 full, serving requests while get_stats is called
\* again and again.
ObserveInit ==
    /\ AuctionStart(EmptyStore)
    /\ RouterStart(lanes[1].capacity, 0)
    /\ now = 0
    /\ RuntimeIdle
    /\ PairIdle

ObserveNext ==
    \/ \E t \in Tasks : ReceiveEnvelope(t)
    \/ \E t \in Tasks : CheckExpired(t)
    \/ \E t \in Tasks : SelectLane(t)
    \/ \E t \in Tasks : SelectFallback(t)
    \/ \E t \in Tasks : RouteStats(t)
    \/ \E t \in Tasks : RouteTotal(t)
    \/ \E t \in Tasks : RouteActive(t)
    \/ GetStatsLock
    \/ GetStatsTotal
    \/ Tick

SpecObserve == ObserveInit /\ [][ObserveNext]_vars

(***************************************************************************)
(* The compliance gate on its own: one job before one runtime, the shape   *)
(* check, the residency check and the whole gate applied in turn.          *)
(***************************************************************************)
\* The runtimes: RuntimeState::new(), one that supports two precisions only,
\* and one whose residency requirements name a required residency.
GateRuntimes ==
    { new_runtime,
      [new_runtime EXCEPT !.supported_precisions = <<"BF16", "FP8">>],
      [new_runtime EXCEPT !.residency_requirements.required_residency = <<"EU">>] }

\* A parameter map from the value of each key, <<>> for a key that is absent.
Parameters(batch_size, region, residency) ==
    LET given == [k \in {"batch_size", "region", "residency"} |->
                    IF k = "batch_size" THEN batch_size
                    ELSE IF k = "region" THEN region ELSE residency]
    IN [k \in {key \in DOMAIN given : given[key] # <<>>} |-> given[k][1]]

\* The jobs before the gate: two precisions, sequence lengths around the
\* maximum, batch sizes around the maximum, one that is no number and one
\* that does not fit 32 bits, regions and residencies inside and outside the
\* requirements, each of them present or absent.
GateJobs ==
    { RuntimeJob(0, precision, len, Parameters(batch_size, region, residency)) :
        precision \in {"BF16", "INT8"},
        len \in {8192, 9000},
        batch_size \in {<<>>, <<"32">>, <<"33">>, <<"many">>, <<"4294967296">>},
        region \in {<<>>, <<"US">>, <<"APAC">>},
        residency \in {<<>>, <<"EU">>, <<"US">>} }

GateInit ==
    /\ AuctionStart(EmptyStore)
    /\ RouterIdle
    /\ now = 0
    /\ RuntimeIdle
    /\ engines = <<>>
    /\ request = <<>>
    /\ runtimes = <<>>
    /\ codec = <<>>
    /\ \E self \in GateRuntimes, job \in GateJobs :
         gate = [pc |-> "shape", self |-> self, job |-> job,
                 shape |-> "", residency |-> "", compliance |-> ""]
    /\ locks = <<>>

\* self.shape_requirements.validate(job)
GateShape ==
    /\ gate.pc = "shape"
    /\ gate' = [gate EXCEPT !.pc = "residency",
                            !.shape = shape_validate(gate.self.shape_requirements, gate.job)]
    /\ UNCHANGED <<engines, request, runtimes, codec, locks, now>>
    /\ UNCHANGED <<auctionVars, routerVars, runtimeVars>>

\* self.residency_requirements.validate(job)
GateResidency ==
    /\ gate.pc = "residency"
    /\ gate' = [gate EXCEPT !.pc = "compliance",
                            !.residency = residency_validate(gate.self.residency_requirements,
                                                             gate.job)]
    /\ UNCHANGED <<engines, request, runtimes, codec, locks, now>>
    /\ UNCHANGED <<auctionVars, routerVars, runtimeVars>>

\* self.check_compliance(job)
GateCompliance ==
    /\ gate.pc = "compliance"
    /\ gate' = [gate EXCEPT !.pc = "done",
                            !.compliance = check_compliance(gate.self, gate.job)]
    /\ UNCHANGED <<engines, request, runtimes, codec, locks, now>>
    /\ UNCHANGED <<auctionVars, routerVars, runtimeVars>>

GateNext ==
    \/ GateShape
    \/ GateResidency
    \/ GateCompliance

SpecGate == GateInit /\ [][GateNext]_vars

(***************************************************************************)
(* process_envelope of the runtime: the checks up to the compliance gate,  *)
(* then execute_job, one action per acquisition of the stats lock.         *)
(***************************************************************************)
RuntimeError(msg, cause) == [ok |-> FALSE, kind |-> "Error", msg |-> msg, cause |-> cause]

ExecutionResult(r) ==
    [ok |-> TRUE, kind |-> "ExecutionResult", job_id |-> r.job_id, status |-> r.status,
     duration_ms |-> r.duration_ms, output_hash |-> r.output_hash]

\* Entry and envelope.validate().
RuntimeReceive(t) ==
    /\ ~Begun(t)
    /\ \A u \in 1..(t - 1) : Begun(u)
    /\ \E env \in RuntimeEnvelopesOf(t) :
         executions' = [executions EXCEPT ![t] =
             IF envelope_validate(env, now) # "Ok"
             THEN [@ EXCEPT !.pc = "done", !.envelope = <<env>>,
                            !.result = RuntimeError("Envelope validation failed",
                                                    envelope_validate(env, now))]
             ELSE [@ EXCEPT !.pc = "check_expired", !.envelope = <<env>>]]
    /\ UNCHANGED <<runtime_stats, now>>
    /\ UNCHANGED <<auctionVars, routerVars, pairVars>>

\* is_expired(), deserialize_job(), job.validate() and, in execute_job, the
\* compliance gate.
RuntimeCheck(t) ==
    /\ executions[t].pc = "check_expired"
    /\ LET env == executions[t].envelope[1]
           job == deserialize_job(env.payload)
       IN executions' = [executions EXCEPT ![t] =
              IF is_expired(env.meta, now)
              THEN [@ EXCEPT !.pc = "done", !.result = RuntimeError("Envelope expired", "Expired")]
              ELSE IF job = <<>>
              THEN [@ EXCEPT !.pc = "done",
                             !.result = RuntimeError("Failed to deserialize job", "Deserialization")]
              ELSE IF job_validate(job[1]) # "Ok"
              THEN [@ EXCEPT !.pc = "done",
                             !.result = RuntimeError("Job validation failed", job_validate(job[1]))]
              ELSE IF check_compliance(new_runtime, job[1]) # "Ok"
              THEN [@ EXCEPT !.pc = "done", !.job = job,
                             !.result = RuntimeError("Compliance check failed",
                                                     check_compliance(new_runtime, job[1]))]
              ELSE [@ EXCEPT !.pc = "count_executed", !.job = job]]
    /\ UNCHANGED <<runtime_stats, now>>
    /\ UNCHANGED <<auctionVars, routerVars, pairVars>>

\* A first stats block that counts the job but not its precision.
ExecuteCountUnkeyed(t) ==
    /\ executions[t].pc = "count_executed"
    /\ runtime_stats' = [runtime_stats EXCEPT !.total_executed = @ + 1]
    /\ executions' = [executions EXCEPT ![t].pc = "simulate"]
    /\ UNCHANGED now
    /\ UNCHANGED <<auctionVars, routerVars, pairVars>>

\* execute_job: the first stats block.
ExecuteCount(t) ==
    /\ executions[t].pc = "count_executed"
    /\ runtime_stats' =
         [runtime_stats EXCEPT
            !.total_executed = @ + 1,
            !.jobs_by_precision = MapIncrement(@, executions[t].job[1].precision)]
    /\ executions' = [executions EXCEPT ![t].pc = "simulate"]
    /\ UNCHANGED now
    /\ UNCHANGED <<auctionVars, routerVars, pairVars>>

\* execute_job: simulate_execution, the second stats block and the return.
ExecuteComplete(t) ==
    /\ executions[t].pc = "simulate"
    /\ LET result == simulate_execution(executions[t].job[1])
       IN /\ runtime_stats' =
               IF result.status = "Completed"
               THEN [runtime_stats EXCEPT !.total_completed = @ + 1]
               ELSE IF result.status = "Failed"
               THEN [runtime_stats EXCEPT !.total_failed = @ + 1]
               ELSE [runtime_stats EXCEPT !.total_rejected = @ + 1]
          /\ executions' = [executions EXCEPT ![t] =
                 [@ EXCEPT !.pc = "done", !.simulated = TRUE,
                           !.result = ExecutionResult(result)]]
    /\ UNCHANGED now
    /\ UNCHANGED <<auctionVars, routerVars, pairVars>>

RuntimeInit ==
    /\ AuctionStart(EmptyStore)
    /\ RouterIdle
    /\ now = 0
    /\ RuntimeIdle
    /\ PairIdle

RuntimeNext ==
    \/ \E t \in Tasks : RuntimeReceive(t)
    \/ \E t \in Tasks : RuntimeCheck(t)
    \/ \E t \in Tasks : ExecuteCount(t)
    \/ \E t \in Tasks : ExecuteComplete(t)
    \/ Tick

SpecRuntime == RuntimeInit /\ [][RuntimeNext]_vars

\* The execute request is cancelled while execute_job waits: for the stats
\* lock of the first block, or in the sleep of simulate_execution.  The
\* future is dropped where it stands and nothing is undone.
CancelExecute(t) ==
    /\ executions[t].pc \in {"count_executed", "simulate"}
    /\ executions' = [executions EXCEPT ![t].pc = "cancelled"]
    /\ UNCHANGED <<runtime_stats, now>>
    /\ UNCHANGED <<auctionVars, routerVars, pairVars>>

\* The runtime serving requests that may be cancelled.
CancelNext ==
    \/ \E t \in Tasks : RuntimeReceive(t)
    \/ \E t \in Tasks : RuntimeCheck(t)
    \/ \E t \in Tasks : ExecuteCount(t)
    \/ \E t \in Tasks : ExecuteComplete(t)
    \/ \E t \in Tasks : CancelExecute(t)
    \/ Tick

SpecCancel == RuntimeInit /\ [][CancelNext]_vars

(***************************************************************************)
(* The lock acquisitions of every handler of one daemon.  Each request is  *)
(* the sequence of its acquisitions, releases and other awaits; a lock is  *)
(* a tokio::sync::RwLock: many readers or one writer, waiters served in    *)
(* the order of their arrival.                                             *)
(***************************************************************************)
Acq(lock, mode) == [op |-> "acquire", lock |-> lock, mode |-> mode]

Rel(lock) == [op |-> "release", lock |-> lock, mode |-> ""]

\* An await that is no lock: the sleep of simulate_execution, flush_async.
Suspend == [op |-> "await", lock |-> "", mode |-> ""]

\* lane.active_jobs of lane 0 or 1.
ActiveJobsLock(lane) == IF lane = 0 THEN "active_jobs_0" ELSE "active_jobs_1"

\* RouterState::select_lane: active_jobs of the primary lane is read, the
\* guard dropped at once, and when the lane is full that of the other lane.
select_lane_locks(lane, fallback) ==
    <<Acq(ActiveJobsLock(lane), "read"), Rel(ActiveJobsLock(lane))>>
    \o (IF fallback
        THEN <<Acq(ActiveJobsLock(1 - lane), "read"), Rel(ActiveJobsLock(1 - lane))>>
        ELSE <<>>)

\* A route_envelope that takes total_routed first and keeps it while it
\* takes stats.
route_envelope_locks_nested(lane) ==
    <<Acq("total_routed", "write"), Acq("stats", "write"), Rel("stats"), Rel("total_routed"),
      Acq(ActiveJobsLock(lane), "write"), Rel(ActiveJobsLock(lane))>>

\* RouterState::route_envelope: three blocks, one lock each.
route_envelope_locks(lane) ==
    <<Acq("stats", "write"), Rel("stats"),
      Acq("total_routed", "write"), Rel("total_routed"),
      Acq(ActiveJobsLock(lane), "write"), Rel(ActiveJobsLock(lane))>>

\* The handlers of the router: process_envelope on lane 0, on lane 1, and on
\* lane 1 after lane 0 was found full; get_stats, which keeps the stats
\* guard while it reads total_routed.
RouterHandlers ==
    << [name |-> "process_envelope",
       program |-> select_lane_locks(0, FALSE) \o route_envelope_locks(0)],
      [name |-> "process_envelope",
       program |-> select_lane_locks(1, FALSE) \o route_envelope_locks(1)],
      [name |-> "process_envelope",
       program |-> select_lane_locks(0, TRUE) \o route_envelope_locks(1)],
      [name |-> "get_stats",
       program |-> <<Acq("stats", "read"), Acq("total_routed", "read"),
                     Rel("total_routed"), Rel("stats")>>] >>

\* AuctionEngine::save_providers and save_stats: the read guard is kept over
\* the inserts and the flush of the tree, which do not await.
save_providers_locks == <<Acq("providers", "read"), Rel("providers")>>

save_stats_locks == <<Acq("stats", "read"), Rel("stats")>>

\* The handlers of the auction daemon: run_auction (match_job, select_route,
\* the stats block, the utilization block, the two saves), flush and
\* get_stats.
AuctionHandlers ==
    << [name |-> "run_auction",
       program |-> <<Acq("providers", "read"), Rel("providers"),
                     Acq("routes", "read"), Rel("routes"),
                     Acq("stats", "write"), Rel("stats"),
                     Acq("providers", "write"), Rel("providers")>>
                   \o save_providers_locks \o save_stats_locks],
      [name |-> "flush",
       program |-> save_providers_locks \o save_stats_locks \o <<Suspend>>],
      [name |-> "get_stats",
       program |-> <<Acq("stats", "read"), Rel("stats")>>] >>

\* The handlers of the runtime: execute_job (the first stats block, the
\* sleep, the second stats block) and get_stats.
RuntimeHandlers ==
    << [name |-> "execute_job",
       program |-> <<Acq("stats", "write"), Rel("stats"), Suspend,
                     Acq("stats", "write"), Rel("stats")>>],
      [name |-> "get_stats",
       program |-> <<Acq("stats", "read"), Rel("stats")>>] >>

LockNames == {"stats", "total_routed", "active_jobs_0", "active_jobs_1", "providers", "routes"}

\* One daemon, each task with one request to it, no lock held.  The tasks
\* are alike, so the requests are taken in the order of the handler lists.
LocksInit ==
    /\ AuctionStart(EmptyStore)
    /\ RouterIdle
    /\ now = 0
    /\ RuntimeIdle
    /\ engines = <<>>
    /\ request = <<>>
    /\ runtimes = <<>>
    /\ codec = <<>>
    /\ gate = <<>>
    /\ \E handlers \in {RouterHandlers, AuctionHandlers, RuntimeHandlers} :
         \E chosen \in [Tasks -> 1..Len(handlers)] :
            /\ \A t, u \in Tasks : t < u => chosen[t] <= chosen[u]
            /\ locks = [held |-> [l \in LockNames |-> {}],
                        queue |-> [l \in LockNames |-> <<>>],
                        tasks |-> [t \in Tasks |->
                                     [name |-> handlers[chosen[t]].name,
                                      program |-> handlers[chosen[t]].program,
                                      pc |-> 1, waiting |-> FALSE, waited |-> FALSE]]]

\* The request of task t has returned.
Returned(t) == locks.tasks[t].pc > Len(locks.tasks[t].program)

\* The step task t is at.
OpOf(t) == locks.tasks[t].program[locks.tasks[t].pc]

\* RwLock: a reader is admitted beside readers, a writer only alone.
Compatible(holders, mode) ==
    IF mode = "write" THEN holders = {} ELSE \A h \in holders : h[2] = "read"

\* The number of waiters at the head of the queue that are admitted, one
\* after the other, beside these holders.
RECURSIVE GrantCount(_, _)
GrantCount(holders, queue) ==
    IF queue = <<>> \/ ~Compatible(holders, queue[1][2]) THEN 0
    ELSE 1 + GrantCount(holders \cup {queue[1]}, Tail(queue))

\* lock.read().await or lock.write().await: the guard is handed out at once
\* when no one waits and the holders admit it; otherwise the task joins the
\* queue and is suspended.
Acquire(t) ==
    /\ ~Returned(t)
    /\ ~locks.tasks[t].waiting
    /\ OpOf(t).op = "acquire"
    /\ LET l == OpOf(t).lock
           mode == OpOf(t).mode
       IN locks' =
            IF locks.queue[l] = <<>> /\ Compatible(locks.held[l], mode)
            THEN [locks EXCEPT !.held[l] = @ \cup {<<t, mode>>}, !.tasks[t].pc = @ + 1]
            ELSE [locks EXCEPT !.queue[l] = Append(@, <<t, mode>>),
                               !.tasks[t].waiting = TRUE, !.tasks[t].waited = TRUE]
    /\ UNCHANGED <<engines, request, runtimes, codec, gate, now>>
    /\ UNCHANGED <<auctionVars, routerVars, runtimeVars>>

\* The guard is dropped: the waiters at the head of the queue that the
\* remaining holders admit get the lock and go on.
Release(t) ==
    /\ ~Returned(t)
    /\ OpOf(t).op = "release"
    /\ LET l == OpOf(t).lock
           remaining == {h \in locks.held[l] : h[1] # t}
           n == GrantCount(remaining, locks.queue[l])
           admitted == {locks.queue[l][i] : i \in 1..n}
       IN locks' =
            [locks EXCEPT
               !.held[l] = remaining \cup admitted,
               !.queue[l] = SubSeq(@, n + 1, Len(@)),
               !.tasks = [u \in Tasks |->
                            IF u = t THEN [@[u] EXCEPT !.pc = @ + 1]
                            ELSE IF \E h \in admitted : h[1] = u
                            THEN [@[u] EXCEPT !.pc = @ + 1, !.waiting = FALSE]
                            ELSE @[u]]]
    /\ UNCHANGED <<engines, request, runtimes, codec, gate, now>>
    /\ UNCHANGED <<auctionVars, routerVars, runtimeVars>>

\* An await on a timer or on the store completes.
Await(t) ==
    /\ ~Returned(t)
    /\ OpOf(t).op = "await"
    /\ locks' = [locks EXCEPT !.tasks[t].pc = @ + 1]
    /\ UNCHANGED <<engines, request, runtimes, codec, gate, now>>
    /\ UNCHANGED <<auctionVars, routerVars, runtimeVars>>

LockStep(t) == Acquire(t) \/ Release(t) \/ Await(t)

LocksNext ==
    \/ \E t \in Tasks : Acquire(t)
    \/ \E t \in Tasks : Release(t)
    \/ \E t \in Tasks : Await(t)

\* The executor runs every task that is ready: a task that can take its next
\* step takes it.
SpecLocks ==
    LocksInit /\ [][LocksNext]_vars /\ \A t \in Tasks : WF_vars(LockStep(t))

(***************************************************************************)
(* process_envelope of the auction daemon: the checks, then run_auction,   *)
(* whose answer is in calls[t].result (an error is passed on as "Auction   *)
(* failed").  The three daemons side by side, each task sending one        *)
(* envelope to one of them.                                                *)
(***************************************************************************)
EnvelopeError(msg, cause) == [ok |-> FALSE, kind |-> "Error", msg |-> msg, cause |-> cause]

\* The envelopes task t may send to the auction daemon: the requests, one
\* envelope that expires at time 1 and one of another schema version.
AuctionEnvelopesOf(t) ==
    {[meta |-> Meta(GXF_VERSION, req.priority, 0, <<>>), payload |-> SerializeJob(JobOf(t, req))] :
        req \in Requests}
    \cup
    { [meta |-> Meta(GXF_VERSION, 150, 0, <<1>>),
       payload |-> SerializeJob(RouterJob(t, 1024))],
      [meta |-> Meta(GXF_VERSION - 1, 150, 0, <<>>),
       payload |-> SerializeJob(RouterJob(t, 1024))] }

\* Entry and envelope.validate().
AuctionReceive(t) ==
    /\ ~Begun(t)
    /\ \A u \in 1..(t - 1) : Begun(u)
    /\ \E env \in AuctionEnvelopesOf(t) :
         calls' = [calls EXCEPT ![t] =
             IF envelope_validate(env, now) # "Ok"
             THEN [@ EXCEPT !.pc = "done", !.op = "envelope", !.current = TRUE,
                            !.envelope = <<env>>,
                            !.result = EnvelopeError("Envelope validation failed",
                                                     envelope_validate(env, now))]
             ELSE [@ EXCEPT !.pc = "check_expired", !.op = "envelope", !.current = TRUE,
                            !.envelope = <<env>>]]
    /\ UNCHANGED <<providers, routes, stats, db, disk, restarted, opened, origin, prev, clean>>
    /\ UNCHANGED nonAuctionVars

\* is_expired(), deserialize_job(), job.validate(), and the first step of
\* run_auction with the job and the priority of the envelope.
AuctionCheck(t) ==
    /\ calls[t].pc = "check_expired"
    /\ LET env == calls[t].envelope[1]
           job == deserialize_job(env.payload)
       IN calls' = [u \in Tasks |->
              IF u # t THEN [calls[u] EXCEPT !.alone = FALSE]
              ELSE IF is_expired(env.meta, now)
              THEN [calls[t] EXCEPT !.pc = "done",
                                    !.result = EnvelopeError("Envelope expired", "Expired")]
              ELSE IF job = <<>>
              THEN [calls[t] EXCEPT !.pc = "done",
                        !.result = EnvelopeError("Failed to deserialize job", "Deserialization")]
              ELSE IF job_validate(job[1]) # "Ok"
              THEN [calls[t] EXCEPT !.pc = "done",
                        !.result = EnvelopeError("Job validation failed", job_validate(job[1]))]
              ELSE MatchStep(calls[t], job[1], env.meta.priority)]
    /\ clean' = FALSE
    /\ UNCHANGED <<providers, routes, stats, db, disk, restarted, opened, origin, prev>>
    /\ UNCHANGED nonAuctionVars

\* The auction daemon on an empty directory, the runtime, and the router with
\* lane 0 full and lane 1 empty.
EntryInit ==
    /\ AuctionStart(EmptyStore)
    /\ RouterStart(lanes[1].capacity, 0)
    /\ now = 0
    /\ RuntimeIdle
    /\ PairIdle

EntryNext ==
    \/ \E t \in Tasks : AuctionReceive(t)
    \/ \E t \in Tasks : AuctionCheck(t)
    \/ \E t \in Tasks : UpdateStats(t)
    \/ \E t \in Tasks : UpdateUtilization(t)
    \/ \E t \in Tasks : SaveProviders(t)
    \/ \E t \in Tasks : SaveStats(t)
    \/ \E t \in Tasks : ReceiveEnvelope(t)
    \/ \E t \in Tasks : CheckExpired(t)
    \/ \E t \in Tasks : SelectLane(t)
    \/ \E t \in Tasks : SelectFallback(t)
    \/ \E t \in Tasks : RouteStats(t)
    \/ \E t \in Tasks : RouteTotal(t)
    \/ \E t \in Tasks : RouteActive(t)
    \/ \E t \in Tasks : RuntimeReceive(t)
    \/ \E t \in Tasks : RuntimeCheck(t)
    \/ \E t \in Tasks : ExecuteCount(t)
    \/ \E t \in Tasks : ExecuteComplete(t)
    \/ Tick

SpecEntry == EntryInit /\ [][EntryNext]_vars

(***************************************************************************)
(* Two engines, each holding a provider list and a route list, are given   *)
(* the same job and priority.                                              *)
(***************************************************************************)
\* Provider lists an engine can hold: the seed providers in Vec order (a
\* first start) or in key order (a restart), slp-us-east-1 and slp-eu-west-1
\* each at its seed utilization, at the utilizations where their BF16 prices
\* are equal (43 and 31), or full.
ProviderLists ==
    {IF order = "seed"
     THEN <<[SeedProviders[1] EXCEPT !.utilization = us],
            [SeedProviders[2] EXCEPT !.utilization = eu]>>
     ELSE <<[SeedProviders[2] EXCEPT !.utilization = eu],
            [SeedProviders[1] EXCEPT !.utilization = us]>> :
        order \in {"seed", "key"},
        us \in {SeedProviders[1].utilization, 43, SeedProviders[1].capacity},
        eu \in {SeedProviders[2].utilization, 31, SeedProviders[2].capacity}}

\* Route lists an engine can hold: the seed routes in Vec order (a first
\* start) or in key order (a restart), and what load_routes returns, in key
\* order, on a store that holds routes of lane 0 only, of lane 1 only, or
\* two of each lane.
RouteLists ==
    { SeedRoutes,
      <<SeedRoutes[2], SeedRoutes[1]>>,
      <<SeedRoutes[1], FlashRoute2>>,
      <<SeedRoutes[2], DeepRoute2>>,
      <<SeedRoutes[2], DeepRoute2, SeedRoutes[1], FlashRoute2>> }

PairInit ==
    /\ AuctionStart(EmptyStore)
    /\ RouterIdle
    /\ RuntimeIdle
    /\ now = 0
    /\ runtimes = <<>>
    /\ codec = <<>>
    /\ gate = <<>>
    /\ locks = <<>>
    /\ request \in Requests
    /\ \E first, second \in [providers : ProviderLists, routes : RouteLists] :
         engines = [e \in Engines |->
                      LET given == IF e = 1 THEN first ELSE second
                      IN [given |-> given,
                          mem |-> [providers |-> given.providers, routes |-> given.routes,
                                   stats |-> DefaultStats],
                          result |-> Pending]]

\* A run_auction that returns any provider able to handle the job, not the
\* first of the list sorted by price.
RunAuctionAnyCandidate(e) ==
    /\ engines[e].result = Pending
    /\ LET job == JobOf(0, request)
           matches == match_job(engines[e].mem.providers, job)
           rt == select_route(engines[e].mem.routes, request.priority)
       IN \E i \in 1..(IF matches = <<>> THEN 1 ELSE Len(matches)) :
            engines' = [engines EXCEPT ![e].result =
                IF matches = <<>> THEN NoMatchError
                ELSE IF rt = <<>> THEN NoRouteError
                ELSE AuctionMatch(job, matches[i], rt[1], price_of(matches[i], job))]
    /\ UNCHANGED <<request, runtimes, codec, gate, locks, now>>
    /\ UNCHANGED <<auctionVars, routerVars, runtimeVars>>

\* run_auction on engine e, from entry to return.
RunAuction(e) ==
    /\ engines[e].result = Pending
    /\ LET job == JobOf(0, request)
           matches == match_job(engines[e].mem.providers, job)
           rt == select_route(engines[e].mem.routes, request.priority)
       IN engines' = [engines EXCEPT ![e] =
              IF matches = <<>> THEN [@ EXCEPT !.result = NoMatchError]
              ELSE IF rt = <<>> THEN [@ EXCEPT !.result = NoRouteError]
              ELSE [@ EXCEPT
                      !.mem.stats = update_stats(@, job, price_of(matches[1], job), rt[1]),
                      !.mem.providers = update_utilization(@, matches[1]),
                      !.result = AuctionMatch(job, matches[1], rt[1],
                                              price_of(matches[1], job))]]
    /\ UNCHANGED <<request, runtimes, codec, gate, locks, now>>
    /\ UNCHANGED <<auctionVars, routerVars, runtimeVars>>

PairNext == \E e \in Engines : RunAuction(e)

SpecPair == PairInit /\ [][PairNext]_vars

(***************************************************************************)
(* Two runtimes side by side, each serving process_envelope calls one      *)
(* after the other, from entry to return.                                  *)
(***************************************************************************)
Runtimes == {1, 2}

MaxRuns == 2

JobIds == {0, 1}

\* The envelopes a runtime may be sent: for each job_id, jobs that differ in
\* precision, kv_cache_seq_len, parameters and priority, one of them stopped
\* by the compliance gate.
TwinEnvelopes ==
    UNION {{ [meta |-> Meta(GXF_VERSION, 128, 0, <<>>),
              payload |-> SerializeJob(RuntimeJob(id, "BF16", 1024, <<>>))],
             [meta |-> Meta(GXF_VERSION, 10, 0, <<>>),
              payload |-> SerializeJob(RuntimeJob(id, "INT8", 2048,
                                                  [k \in {"region"} |-> "EU"]))],
             [meta |-> Meta(GXF_VERSION, 128, 0, <<>>),
              payload |-> SerializeJob(RuntimeJob(id, "BF16", 1024,
                                                  [k \in {"region"} |-> "APAC"]))] } :
           id \in JobIds}

\* RuntimeState::execute_job on these stats: the stats it leaves and its answer.
execute_job(st, job) ==
    IF check_compliance(new_runtime, job) # "Ok"
    THEN [stats |-> st,
          result |-> RuntimeError("Compliance check failed", check_compliance(new_runtime, job))]
    ELSE LET counted == [st EXCEPT !.total_executed = @ + 1,
                                   !.jobs_by_precision = MapIncrement(@, job.precision)]
             result == simulate_execution(job)
         IN [stats |-> IF result.status = "Completed"
                       THEN [counted EXCEPT !.total_completed = @ + 1]
                       ELSE IF result.status = "Failed"
                       THEN [counted EXCEPT !.total_failed = @ + 1]
                       ELSE [counted EXCEPT !.total_rejected = @ + 1],
             result |-> ExecutionResult(result)]

\* process_envelope of the runtime on these stats at clock reading current_time.
runtime_process_envelope(st, env, current_time) ==
    IF envelope_validate(env, current_time) # "Ok"
    THEN [stats |-> st,
          result |-> RuntimeError("Envelope validation failed",
                                  envelope_validate(env, current_time))]
    ELSE IF is_expired(env.meta, current_time)
    THEN [stats |-> st, result |-> RuntimeError("Envelope expired", "Expired")]
    ELSE IF deserialize_job(env.payload) = <<>>
    THEN [stats |-> st, result |-> RuntimeError("Failed to deserialize job", "Deserialization")]
    ELSE IF job_validate(deserialize_job(env.payload)[1]) # "Ok"
    THEN [stats |-> st,
          result |-> RuntimeError("Job validation failed",
                                  job_validate(deserialize_job(env.payload)[1]))]
    ELSE execute_job(st, deserialize_job(env.payload)[1])

TwinInit ==
    /\ AuctionStart(EmptyStore)
    /\ RouterIdle
    /\ RuntimeIdle
    /\ now = 0
    /\ engines = <<>>
    /\ request = <<>>
    /\ codec = <<>>
    /\ gate = <<>>
    /\ locks = <<>>
    /\ runtimes = [r \in Runtimes |->
                     [stats |-> DefaultExecutionStats, runs |-> 0,
                      envelope |-> <<>>, result |-> Pending]]

\* Runtime r serves one more request.
TwinExecute(r) ==
    /\ runtimes[r].runs < MaxRuns
    /\ \E env \in TwinEnvelopes :
         LET served == runtime_process_envelope(runtimes[r].stats, env, now)
         IN runtimes' = [runtimes EXCEPT ![r] =
                [stats |-> served.stats, runs |-> @.runs + 1,
                 envelope |-> <<env>>, result |-> served.result]]
    /\ UNCHANGED <<engines, request, codec, gate, locks, now>>
    /\ UNCHANGED <<auctionVars, routerVars, runtimeVars>>

TwinNext == \E r \in Runtimes : TwinExecute(r)

SpecTwin == TwinInit /\ [][TwinNext]_vars

(***************************************************************************)
(* One envelope, any GxfEnvelope value a caller can build: validate(), the *)
(* trip over the wire (to_json, from_json) and validate() on what arrives. *)
(***************************************************************************)
\* Metadata of either schema version, created at 0 or 1, with no expiry or
\* one at 1 or 2, the optional fields all absent or all present.
CodecMetas ==
    {[Meta(version, 128, created_at, expires_at) EXCEPT
        !.source_slp = IF extras THEN <<"slp-us-east-1">> ELSE <<>>,
        !.target_lane = IF extras THEN <<"Flash">> ELSE <<>>,
        !.additional_fields = IF extras THEN [k \in {"tenant"} |-> "a"] ELSE <<>>] :
        version \in {GXF_VERSION, GXF_VERSION - 1},
        created_at \in {0, 1},
        expires_at \in {<<>>, <<1>>, <<2>>},
        extras \in BOOLEAN}

\* Payloads: none, a valid job, a job with no sequence, a job whose precision
\* is not a PrecisionLevel, and bytes that are no job.
CodecPayloads ==
    { <<>>,
      SerializeJob(RuntimeJob(0, "BF16", 1024, <<>>)),
      SerializeJob(RuntimeJob(0, "INT8", 0, <<>>)),
      SerializeJob(RuntimeJob(0, "FP4", 1024, <<>>)),
      <<"not a job">> }

CodecEnvelopes == [meta : CodecMetas, payload : CodecPayloads]

CodecInit ==
    /\ AuctionStart(EmptyStore)
    /\ RouterIdle
    /\ RuntimeIdle
    /\ now = 0
    /\ engines = <<>>
    /\ request = <<>>
    /\ runtimes = <<>>
    /\ gate = <<>>
    /\ locks = <<>>
    /\ \E env \in CodecEnvelopes :
         codec = [pc |-> "validate", envelope |-> env, outcome |-> "", at |-> 0,
                  wire |-> <<>>, decoded |-> <<>>, outcome_decoded |-> "", at_decoded |-> 0]

\* envelope.validate() at the sender.
CodecValidate ==
    /\ codec.pc = "validate"
    /\ codec' = [codec EXCEPT !.pc = "to_json",
                              !.outcome = envelope_validate(codec.envelope, now),
                              !.at = now]
    /\ UNCHANGED <<engines, request, runtimes, gate, locks, now>>
    /\ UNCHANGED <<auctionVars, routerVars, runtimeVars>>

CodecToJson ==
    /\ codec.pc = "to_json"
    /\ codec' = [codec EXCEPT !.pc = "from_json", !.wire = to_json(codec.envelope)]
    /\ UNCHANGED <<engines, request, runtimes, gate, locks, now>>
    /\ UNCHANGED <<auctionVars, routerVars, runtimeVars>>

CodecFromJson ==
    /\ codec.pc = "from_json"
    /\ codec' = [codec EXCEPT !.pc = "revalidate", !.decoded = from_json(codec.wire)]
    /\ UNCHANGED <<engines, request, runtimes, gate, locks, now>>
    /\ UNCHANGED <<auctionVars, routerVars, runtimeVars>>

\* envelope.validate() at the receiver, on what from_json returned.
CodecRevalidate ==
    /\ codec.pc = "revalidate"
    /\ codec' = [codec EXCEPT
                   !.pc = "done",
                   !.outcome_decoded =
                       IF codec.decoded = <<>> THEN "Deserialization"
                       ELSE envelope_validate(codec.decoded[1], now),
                   !.at_decoded = now]
    /\ UNCHANGED <<engines, request, runtimes, gate, locks, now>>
    /\ UNCHANGED <<auctionVars, routerVars, runtimeVars>>

CodecNext ==
    \/ CodecValidate
    \/ CodecToJson
    \/ CodecFromJson
    \/ CodecRevalidate
    \/ Tick

SpecCodec == CodecInit /\ [][CodecNext]_vars

(***************************************************************************)
(* Properties of the auction engine.                                       *)
(***************************************************************************)
RECURSIVE SumUtilization(_)
SumUtilization(provs) ==
    IF provs = <<>> THEN 0 ELSE provs[1].utilization + SumUtilization(Tail(provs))

UtilizationOf(provs, slp_id) == provs[FindProvider(provs, slp_id)].utilization

SlpIds == {SeedProviders[i].slp_id : i \in 1..Len(SeedProviders)}

\* The run_auction calls that have returned a match.
Matched == {t \in Tasks : calls[t].op = "auction" /\ calls[t].result.ok}

RECURSIVE SumOver(_, _)
SumOver(f, S) ==
    IF S = {} THEN 0 ELSE LET x == CHOOSE x \in S : TRUE IN f[x] + SumOver(f, S \ {x})

\* Every call is a run_auction that ran to its return in the first instance
\* of the daemon with no storage failure.
AllAuctionsReturned ==
    /\ ~restarted
    /\ \A t \in Tasks : /\ calls[t].op = "auction"
                        /\ calls[t].pc = "done"
                        /\ ~calls[t].faulted

\* C1: in every reachable state of the engine, under any interleaving of
\* concurrent run_auction calls, every provider has utilization <= capacity.
C1_UtilizationWithinCapacity ==
    \A i \in 1..Len(providers) : providers[i].utilization <= providers[i].capacity

\* C2: when N run_auction calls run concurrently and the only provider able
\* to handle their jobs (slp-us-east-1 for E5M2) has K free slots, exactly
\* min(N, K) calls succeed and the others fail with the no-match error.
C2_ExactlyMinSucceed ==
    (AllAuctionsReturned /\ \A t \in Tasks : calls[t].job[1].precision = "E5M2")
    => LET K == origin.providers[FindProvider(origin.providers, "slp-us-east-1")].capacity
                - UtilizationOf(origin.providers, "slp-us-east-1")
           N == Cardinality(Tasks)
       IN /\ Cardinality(Matched) = (IF N < K THEN N ELSE K)
          /\ \A t \in Tasks \ Matched : calls[t].result = NoMatchError

\* What a store and a working set must show to include every auction that
\* was reported as successful since the first start.
Reports(st, provs) ==
    /\ st.total_auctions >= origin.stats.total_auctions + Cardinality(Matched)
    /\ st.total_matches >= origin.stats.total_matches + Cardinality(Matched)
    /\ st.total_volume >=
         origin.stats.total_volume + SumOver([t \in Tasks |-> calls[t].result.price], Matched)
    /\ \A slp \in SlpIds :
         UtilizationOf(provs, slp) >=
           UtilizationOf(origin.providers, slp)
           + Cardinality({t \in Matched : calls[t].result.slp_id = slp})

\* C4: whenever run_auction has returned success, the durable store holds
\* the provider's incremented utilization and stats that include the auction,
\* so an engine opened on the directory after a crash at any later point
\* reports stats and utilizations that include every successful auction.
C4_SuccessIsDurable ==
    LET reopened == OpenEngine(disk)
    IN /\ Reports(reopened.stats, reopened.providers)
       /\ Reports(stats, providers)

\* A successful auction of an earlier instance is reported by the running one.
C4_Witness ==
    /\ restarted
    /\ \E t \in Matched : ~calls[t].current
    /\ stats.total_matches = origin.stats.total_matches + Cardinality(Matched)

\* The calls of the running instance that have executed the stats block.
PastStats ==
    {t \in Tasks :
        /\ calls[t].current
        /\ calls[t].op = "auction"
        /\ \/ calls[t].pc \in {"update_utilization", "save_providers", "save_stats"}
           \/ calls[t].pc = "done" /\ (calls[t].result.ok \/ calls[t].faulted)}

\* C5: after successful auctions followed by flush(), an engine opened on the
\* same directory reports the stats and the provider utilizations of the
\* previous instance, and its first auction counts total_auctions = restored + 1.
C5_RoundTrip ==
    (restarted /\ prev.clean)
    => /\ opened.stats = prev.stats
       /\ \A slp \in SlpIds :
            UtilizationOf(opened.providers, slp) = UtilizationOf(prev.providers, slp)
       /\ Cardinality(PastStats) = 1
            => stats.total_auctions = prev.stats.total_auctions + 1

\* An instance that had counted auctions was flushed and reopened, and the
\* running instance has returned a match.
C5_Witness ==
    /\ restarted
    /\ prev.clean
    /\ prev.stats.total_auctions > 0
    /\ UtilizationOf(prev.providers, "slp-us-east-1") > SeedProviders[1].utilization
    /\ \E t \in Matched : calls[t].current /\ Cardinality(PastStats) = 1

\* C6: if writing the providers or the stats fails during run_auction, the
\* call returns an Internal error and never an AuctionMatch.
C6_StorageFailureIsInternalError ==
    \A t \in Tasks :
        (calls[t].op = "auction" /\ calls[t].faulted)
        => /\ calls[t].pc = "done"
           /\ calls[t].result.kind = "InternalError"
           /\ ~calls[t].result.ok

C6_Witness ==
    \E t \in Tasks :
        /\ calls[t].op = "auction"
        /\ calls[t].faulted
        /\ calls[t].result = SaveStatsError

\* C7: the auction commit is one durable transaction: what an engine finds
\* after a crash holds, for every auction, both its utilization increment and
\* its stats delta, or neither.
C7_CommitIsOneTransaction ==
    restarted
    => SumUtilization(opened.providers) - SumUtilization(origin.providers)
       = opened.stats.total_matches - origin.stats.total_matches

\* The working set an engine started on origin has after running the calls of
\* the tasks order[1..n] one after the other, and whether each returned what
\* the task's call returned.
RECURSIVE Replay(_, _)
Replay(order, n) ==
    IF n = 0
    THEN [mem |-> [providers |-> origin.providers, routes |-> routes, stats |-> origin.stats],
          same |-> TRUE]
    ELSE LET before == Replay(order, n - 1)
             c == calls[order[n]]
             step == SeqAuction(before.mem, c.job[1], c.priority)
         IN [mem |-> step.mem, same |-> before.same /\ step.result = c.result]

TaskOrders == {order \in [Tasks -> Tasks] : \A a, b \in Tasks : a # b => order[a] # order[b]}

\* C8: the matches returned by concurrent run_auction calls, with the final
\* stats and utilizations, are those of some sequential execution of the calls.
C8_Linearizable ==
    AllAuctionsReturned
    => \E order \in TaskOrders :
         LET r == Replay(order, Cardinality(Tasks))
         IN /\ r.same
            /\ r.mem.providers = providers
            /\ r.mem.stats = stats

\* C9: with k successful auctions and no call in progress, the sum of all
\* utilizations is its initial value plus k, each match having added one to
\* the provider it names.
C9_SumOfUtilizations ==
    (~restarted /\ \A t \in Tasks : Quiescent(calls[t]))
    => /\ SumUtilization(providers)
            = SumUtilization(origin.providers) + Cardinality(Matched)
       /\ \A slp \in SlpIds :
            UtilizationOf(providers, slp) =
              UtilizationOf(origin.providers, slp)
              + Cardinality({t \in Matched : calls[t].result.slp_id = slp})

\* The number of calls in S whose job has precision q, or route has lane l.
CountPrecision(S, q) == Cardinality({t \in S : calls[t].job[1].precision = q})

CountLane(S, l) == Cardinality({t \in S : calls[t].route[1].lane_id = l})

\* C10: every run_auction that reaches its match with price P, precision q
\* and lane L has added 1 to total_auctions and total_matches, P to
\* total_volume, 1 to matches_by_precision[q] and 1 to matches_by_lane[L], and
\* nothing else, under any interleaving: the stats are those the instance
\* loaded plus exactly these deltas.
C10_StatsDelta ==
    LET S == PastStats
        qs == DOMAIN opened.stats.matches_by_precision
                \cup {calls[t].job[1].precision : t \in S}
        ls == DOMAIN opened.stats.matches_by_lane
                \cup {calls[t].route[1].lane_id : t \in S}
    IN /\ stats.total_auctions = opened.stats.total_auctions + Cardinality(S)
       /\ stats.total_matches = opened.stats.total_matches + Cardinality(S)
       /\ stats.total_unmatched = opened.stats.total_unmatched
       /\ stats.total_volume =
            opened.stats.total_volume + SumOver([t \in Tasks |-> calls[t].price], S)
       /\ stats.matches_by_precision =
            [q \in qs |-> MapGet(opened.stats.matches_by_precision, q) + CountPrecision(S, q)]
       /\ stats.matches_by_lane =
            [l \in ls |-> MapGet(opened.stats.matches_by_lane, l) + CountLane(S, l)]
       /\ \A t \in Matched : calls[t].result.price = calls[t].price

\* Two calls that overlapped have both returned a match.
C10_Witness ==
    /\ Cardinality({t \in Matched : calls[t].current}) >= 2
    /\ \E t \in Matched : calls[t].result.price > 0 /\ calls[t].result.lane_id = 0
    /\ stats.total_volume > opened.stats.total_volume

\* The counters of a stats record are consistent.
CountersConsistent(st) == st.total_matches + st.total_unmatched <= st.total_auctions

\* C11: in every reachable state, in memory and in the stats record of the
\* store (as the process sees it and as a restart would find it),
\* total_matches + total_unmatched <= total_auctions.
C11_MatchesWithinAuctions ==
    /\ CountersConsistent(stats)
    /\ CountersConsistent(load_stats(db.stats))
    /\ CountersConsistent(load_stats(disk.stats))

\* The running instance has counted a match on top of restored counters and
\* the record on disk holds it.
C11_Witness ==
    /\ opened.stats.total_matches > 0
    /\ stats.total_matches > opened.stats.total_matches
    /\ load_stats(disk.stats) = stats

\* The run_auction calls of the running instance that found no provider.
Unmatched ==
    {t \in Tasks : calls[t].current /\ calls[t].op = "auction" /\ calls[t].result = NoMatchError}

\* C12: total_auctions counts every run_auction processed, matched or not,
\* and total_unmatched those that found no provider: a run_auction that has
\* failed for lack of a matching provider has added one to both.
C12_UnmatchedAreCounted ==
    /\ stats.total_unmatched = opened.stats.total_unmatched + Cardinality(Unmatched)
    /\ stats.total_auctions =
         opened.stats.total_auctions + Cardinality(PastStats) + Cardinality(Unmatched)

Candidates(provs, job) ==
    {i \in 1..Len(provs) :
        /\ job.precision \in provs[i].supported_precisions
        /\ provs[i].utilization < provs[i].capacity}

\* C25: the candidate set of run_auction is exactly the providers whose
\* supported_precisions contain the job's precision and whose utilization is
\* below their capacity; if it is empty the call fails with the no-match
\* error; otherwise the chosen provider has the minimum calculate_price over
\* the candidates and, among candidates of equal price, comes first in the
\* engine's provider list.
C25_ProviderSelection ==
    \A e \in Engines :
        engines[e].result # Pending
        => LET provs == engines[e].given.providers
               job == JobOf(0, request)
               C == Candidates(provs, job)
           IN IF C = {}
              THEN engines[e].result = NoMatchError
              ELSE /\ engines[e].result.ok
                   /\ \E i \in C :
                        /\ \A j \in C : price_of(provs[i], job) <= price_of(provs[j], job)
                        /\ \A j \in C : price_of(provs[j], job) = price_of(provs[i], job)
                                            => i <= j
                        /\ engines[e].result.slp_id = provs[i].slp_id
                        /\ engines[e].result.price = price_of(provs[i], job)

\* One engine was given the key-ordered list in which both providers quote
\* the same price and chose the first, slp-eu-west-1; the other was given a
\* list in which slp-eu-west-1 is full and chose slp-us-east-1.
C25_Witness ==
    /\ engines # <<>>
    /\ LET provs == engines[1].given.providers
           job == JobOf(0, request)
       IN /\ Candidates(provs, job) = {1, 2}
          /\ price_of(provs[1], job) = price_of(provs[2], job)
          /\ provs[1].slp_id = "slp-eu-west-1"
          /\ engines[1].result.ok
          /\ engines[1].result.slp_id = "slp-eu-west-1"
    /\ Cardinality(Candidates(engines[2].given.providers, JobOf(0, request))) = 1
    /\ engines[2].result.ok
    /\ engines[2].result.slp_id = "slp-us-east-1"

\* The indices of the routes run_auction chooses among: those of the primary
\* lane of the priority, or all routes when there is none of that lane.
RoutePool(rts, priority) ==
    LET primary == IF priority >= 128 THEN 0 ELSE 1
        inLane == {i \in 1..Len(rts) : rts[i].lane_id = primary}
    IN IF inLane # {} THEN inLane ELSE 1..Len(rts)

\* C26: the primary lane is 0 when priority >= 128 and 1 otherwise; if any
\* route has that lane_id the chosen route is a minimum-score route among
\* them, the first in route-list order on equal score; if none has it, the
\* chosen route is the first minimum-score route over all routes; with no
\* route at all the call fails with the no-route error.  The returned
\* lane_id and route are those of the chosen route.
C26_RouteSelection ==
    \A e \in Engines :
        (engines[e].result # Pending /\ engines[e].result # NoMatchError)
        => LET rts == engines[e].given.routes
               P == RoutePool(rts, request.priority)
           IN IF rts = <<>>
              THEN engines[e].result = NoRouteError
              ELSE /\ engines[e].result.ok
                   /\ \E i \in P :
                        /\ \A j \in P : ~F64Less(score_of(rts[j]), score_of(rts[i]))
                        /\ \A j \in P : ~F64Less(score_of(rts[i]), score_of(rts[j])) => i <= j
                        /\ engines[e].result.lane_id = rts[i].lane_id
                        /\ engines[e].result.route = rts[i].path

\* For a priority below 128, one engine holds routes of lane 0 only, two of
\* equal score, and chose the first; the other holds two routes of lane 1
\* and chose the second, whose score is lower.
C26_Witness ==
    /\ engines # <<>>
    /\ request.priority < 128
    /\ engines[1].given.routes = <<SeedRoutes[1], FlashRoute2>>
    /\ engines[1].result.ok
    /\ engines[1].result.lane_id = 0
    /\ engines[1].result.route = SeedRoutes[1].path
    /\ engines[2].given.routes = <<SeedRoutes[2], DeepRoute2, SeedRoutes[1], FlashRoute2>>
    /\ engines[2].result.ok
    /\ engines[2].result.lane_id = 1
    /\ engines[2].result.route = DeepRoute2.path

C37_MemoryEqualsStore ==
    (\A t \in Tasks : Quiescent(calls[t]))
    => /\ stats = load_stats(db.stats)
       /\ \A i \in 1..Len(providers) :
            /\ providers[i].slp_id \in DOMAIN db.providers
            /\ db.providers[providers[i].slp_id] = SerializeProvider(providers[i])

\* The slp_ids of a provider list, in its order.
ProviderOrder(provs) == [i \in 1..Len(provs) |-> provs[i].slp_id]

\* C38: the provider tie-break order does not depend on whether the engine
\* seeded the store or reopened it: the in-memory provider list of the
\* instance that wrote the seed and of any instance that loads it from the
\* providers partition have the same order, so equally priced candidates
\* yield the same provider before and after a restart.
C38_OrderSurvivesRestart ==
    ProviderOrder(providers) = ProviderOrder(FirstStart.mem.providers)

\* The counters of stats record a are at most those of b.
StatsLeq(a, b) ==
    /\ a.total_auctions <= b.total_auctions
    /\ a.total_matches <= b.total_matches
    /\ a.total_volume <= b.total_volume

\* C39: under any interleaving of concurrent run_auction and flush calls the
\* durable stats record never regresses: every write of the stats key
\* stores counters that are at least those stored before, and no write
\* replaces the record by a snapshot that lacks an auction reported as
\* successful.
C39_StatsRecordNeverRegresses ==
    [][\A t \in Tasks :
         (calls[t].pc = "save_stats" /\ calls'[t].pc \in {"done", "flush_db"})
         => /\ StatsLeq(load_stats(db.stats), load_stats(db'.stats))
            /\ StatsLeq(load_stats(disk.stats), load_stats(disk'.stats))
            /\ load_stats(db'.stats).total_matches
                 >= opened.stats.total_matches
                    + Cardinality({u \in Tasks : /\ calls'[u].current
                                                  /\ calls'[u].op = "auction"
                                                  /\ calls'[u].pc = "done"
                                                  /\ calls'[u].result.ok})]_vars

\* Two auctions of the running instance have written the stats record and
\* returned their match.
C39_Witness ==
    /\ Cardinality({u \in Tasks : /\ calls[u].current
                                   /\ calls[u].op = "auction"
                                   /\ calls[u].pc = "done"
                                   /\ calls[u].result.ok}) >= 2
    /\ load_stats(db.stats).total_matches = opened.stats.total_matches + 2

\* The precision multipliers 1.0, 1.2, 1.5, 2.0 in tenths.
MultiplierTenths(q) ==
    IF q = "INT8" THEN 10 ELSE IF q = "E5M2" THEN 12 ELSE IF q = "FP8" THEN 15 ELSE 20

\* floor(floor((base_price + 10 * kv) * mult) * (1 + 0.5 * utilization / capacity))
\* in exact arithmetic.
ExactPrice(p, job) ==
    LET price0 == p.base_price + 10 * job.kv_cache_seq_len
        price1 == (price0 * MultiplierTenths(job.precision)) \div 10
    IN (price1 * (2 * p.capacity + p.utilization)) \div (2 * p.capacity)

\* C14: the price of a match is
\* floor(floor((base_price + 10 * kv_cache_seq_len) * mult) * (1 + 0.5 * utilization / capacity))
\* on the utilization the provider had when it was matched (25852 for
\* base_price 1000, capacity 100, utilization 30 and a BF16 job of length 1024).
C14_PriceFormula ==
    \A t \in Tasks :
        calls[t].provider # <<>>
        => calls[t].price = ExactPrice(calls[t].provider[1], calls[t].job[1])

(***************************************************************************)
(* Properties of the router.                                               *)
(***************************************************************************)
\* C3: in every reachable state of the router, under any interleaving of
\* concurrent process_envelope calls, every lane has active_jobs <= capacity
\* (the capacity check and the increment behave as one atomic step).
C3_ActiveWithinCapacity ==
    \A i \in 1..Len(lanes) : active_jobs[i] <= lanes[i].capacity

\* The process_envelope calls in which select_lane has returned.
LaneDecided ==
    {t \in Tasks :
        \/ envelopes[t].pc \in {"route_stats", "route_total", "route_active"}
        \/ /\ envelopes[t].pc = "done"
           /\ envelopes[t].result.ok \/ envelopes[t].result.msg = "Lane selection failed"}

\* C15: lane selection is a function of the priority and of the lanes'
\* occupancy as select_lane read it: the primary lane is 0 for priority >= 128
\* and 1 below; it is returned when its active_jobs is below its capacity,
\* otherwise the other lane when that one has a free slot, otherwise the call
\* fails with the all-lanes-at-capacity error.  On an empty router one
\* envelope of priority 150 is routed to lane 0 and total_routed becomes 1.
C15_LaneSelection ==
    /\ \A t \in LaneDecided :
         LET c == envelopes[t]
             primary == IF c.envelope[1].meta.priority >= 128 THEN 0 ELSE 1
             other == 1 - primary
             failed == c.pc = "done" /\ ~c.result.ok
         IN /\ c.observed[1] < lanes[primary + 1].capacity
                 => ~failed /\ c.lane_id = primary /\ Len(c.observed) = 1
            /\ c.observed[1] >= lanes[primary + 1].capacity
                 => /\ Len(c.observed) = 2
                    /\ c.observed[2] < lanes[other + 1].capacity
                         => ~failed /\ c.lane_id = other
                    /\ c.observed[2] >= lanes[other + 1].capacity
                         => /\ failed
                            /\ c.result = RouterError("Lane selection failed", "InternalError")
            /\ (c.pc = "done" /\ ~failed) => c.result = RouterOk(c.lane_id)
    /\ \A t \in Tasks :
         (/\ router_origin = RouterAfter(0, 0)
          /\ envelopes[t].pc = "done"
          /\ envelopes[t].envelope # <<>>
          /\ envelopes[t].envelope[1].meta = Meta(GXF_VERSION, 150, 0, <<>>)
          /\ envelope_validate(envelopes[t].envelope[1], 0) = "Ok"
          /\ \A u \in Tasks \ {t} : envelopes[u].pc = "idle")
         => /\ envelopes[t].result = RouterOk(0)
            /\ total_routed = 1
            /\ active_jobs = <<1, 0>>

\* With lane 0 full, one call was sent to lane 1, the fallback, and took its
\* last slot; another then found every lane at capacity.
C15_Witness ==
    /\ \E t \in Tasks :
         /\ envelopes[t].pc = "done"
         /\ envelopes[t].result = RouterOk(1)
         /\ envelopes[t].observed = <<lanes[1].capacity, lanes[2].capacity - 1>>
    /\ \E u \in Tasks :
         /\ envelopes[u].pc = "done"
         /\ envelopes[u].result = RouterError("Lane selection failed", "InternalError")
         /\ envelopes[u].observed = <<lanes[1].capacity, lanes[2].capacity>>

\* One envelope of priority 150 has been routed by a router that was empty.
C15_WitnessEmpty ==
    /\ router_origin = RouterAfter(0, 0)
    /\ total_routed = 1
    /\ \E t \in Tasks : envelopes[t].result = RouterOk(0)
                          /\ envelopes[t].envelope[1].meta.priority = 150

\* The calls that have executed the stats block, the total_routed block and
\* the active_jobs block of route_envelope.
PastRouteStats ==
    {t \in Tasks : \/ envelopes[t].pc \in {"route_total", "route_active"}
                   \/ envelopes[t].pc = "done" /\ envelopes[t].result.ok}

PastRouteTotal ==
    {t \in Tasks : \/ envelopes[t].pc = "route_active"
                   \/ envelopes[t].pc = "done" /\ envelopes[t].result.ok}

PastRouteActive == {t \in Tasks : envelopes[t].pc = "done" /\ envelopes[t].result.ok}

\* The calls that have returned an error.
RouterFailed == {t \in Tasks : envelopes[t].pc = "done" /\ ~envelopes[t].result.ok}

\* C16: a routing request that fails (invalid envelope, expired, invalid job,
\* no lane) changes no counter of the router: active_jobs, the per-lane stats
\* and total_routed are what the router started with plus the contributions
\* of the calls that were routed, however many calls have failed.
C16_FailureChangesNothing ==
    LET ls == DOMAIN router_origin.router_stats
                \cup {envelopes[t].lane_id : t \in PastRouteStats}
    IN /\ router_stats =
            [l \in ls |-> MapGet(router_origin.router_stats, l)
                          + Cardinality({t \in PastRouteStats : envelopes[t].lane_id = l})]
       /\ total_routed = router_origin.total_routed + Cardinality(PastRouteTotal)
       /\ \A i \in 1..Len(lanes) :
            active_jobs[i] =
              router_origin.active_jobs[i]
              + Cardinality({t \in PastRouteActive : envelopes[t].lane_id = lanes[i].id})

\* An envelope created at 0 that expired at 1 was rejected as expired at
\* time 1, another request was refused for lack of a free lane, and the
\* counters are those of the start.
C16_Witness ==
    /\ now = 1
    /\ \E t \in RouterFailed :
         /\ envelopes[t].envelope # <<>>
         /\ envelopes[t].envelope[1].meta.expires_at = <<1>>
         /\ envelopes[t].result.cause = "Expired"
    /\ \E t \in RouterFailed : envelopes[t].result.msg = "Lane selection failed"
    /\ total_routed = router_origin.total_routed
    /\ active_jobs = router_origin.active_jobs
    /\ router_stats = router_origin.router_stats

\* What made a failed request fail: the envelope had expired, no lane had a
\* free slot, or the request was malformed or invalid.
FailureCause(result) ==
    IF result.cause = "Expired" THEN "Expired"
    ELSE IF result.msg = "Lane selection failed" THEN "AllLanesAtCapacity"
    ELSE "InvalidArgument"

\* C17: the router reports its three failure causes (expired envelope,
\* malformed or invalid envelope or job, all lanes at capacity) with pairwise
\* distinct error kinds: two requests that failed for different causes were
\* answered with different status codes.
C17_DistinctErrorKinds ==
    \A t, u \in RouterFailed :
        FailureCause(envelopes[t].result) # FailureCause(envelopes[u].result)
        => RpcStatus(envelopes[t].result) # RpcStatus(envelopes[u].result)

\* No routing request is in progress.
RouterQuiet == \A t \in Tasks : envelopes[t].pc \in {"idle", "done"}

\* C27: the router commit is atomic for observers: in every RouterStats that
\* a concurrent get_stats returns, total_routed is the sum of lane_stats over
\* all lanes; and whenever no routing request is in progress total_routed is
\* also the sum of active_jobs over all lanes and lane_stats[L] =
\* active_jobs[L] for every lane L.
C27_CommitIsAtomicForObservers ==
    /\ observer.pc = "done"
         => observer.total_routed
              = MapGet(observer.lane_stats, 0) + MapGet(observer.lane_stats, 1)
    /\ RouterQuiet
         => /\ total_routed = active_jobs[1] + active_jobs[2]
            /\ \A i \in 1..Len(lanes) : MapGet(router_stats, lanes[i].id) = active_jobs[i]

\* Both lanes are at capacity.
AllLanesFull == \A i \in 1..Len(lanes) : active_jobs[i] >= lanes[i].capacity

\* C28: lane occupancy is monotone: no router operation decreases the
\* active_jobs of a lane, so a lane that is full never returns to open, and
\* once both lanes are full every request that comes to select a lane fails
\* with the all-lanes-at-capacity error.
C28_OccupancyIsMonotone ==
    [][/\ \A i \in 1..Len(lanes) :
            /\ active_jobs'[i] >= active_jobs[i]
            /\ active_jobs[i] >= lanes[i].capacity => active_jobs'[i] >= lanes[i].capacity
       /\ AllLanesFull
            => \A t \in Tasks :
                 /\ envelopes[t].pc = "select_lane"
                      => envelopes'[t].pc \in {"select_lane", "select_fallback"}
                 /\ envelopes[t].pc = "select_fallback"
                      => \/ envelopes'[t] = envelopes[t]
                         \/ /\ envelopes'[t].pc = "done"
                            /\ envelopes'[t].result
                                 = RouterError("Lane selection failed", "InternalError")]_vars

\* A router with one free slot, in lane 0, has given it away, and a request
\* of priority below 128 then found lane 1 and lane 0 both full.
C28_Witness ==
    /\ router_origin.active_jobs = <<lanes[1].capacity - 1, lanes[2].capacity>>
    /\ AllLanesFull
    /\ \E t \in Tasks :
         /\ envelopes[t].pc = "done"
         /\ envelopes[t].result = RouterError("Lane selection failed", "InternalError")
         /\ envelopes[t].observed = <<lanes[2].capacity, lanes[1].capacity>>

(***************************************************************************)
(* Properties of the runtime.                                              *)
(***************************************************************************)
\* The job does not pass the default policy: its sequence is longer than
\* 8192, its batch size is a number above 32, or its region is neither US
\* nor EU.
NonCompliant(job) ==
    \/ job.kv_cache_seq_len > 8192
    \/ /\ "batch_size" \in DOMAIN job.parameters
       /\ parse_u32(job.parameters["batch_size"]) # <<>>
       /\ parse_u32(job.parameters["batch_size"])[1] > 32
    \/ /\ "region" \in DOMAIN job.parameters
       /\ job.parameters["region"] \notin {"US", "EU"}

\* The calls whose job reached the compliance gate, and those it stopped.
AtGate == {t \in Tasks : executions[t].job # <<>>}

GateRejected == {t \in AtGate : NonCompliant(executions[t].job[1])}

\* The calls that have executed the first and the second stats block.
PastExecuteCount == {t \in Tasks : executions[t].pc = "simulate" \/ executions[t].simulated}

PastExecuteComplete == {t \in Tasks : executions[t].simulated}

\* C19: a job that fails the compliance gate is not executed: the violation
\* is returned as an error (ResidencyViolation for region APAC under the
\* default policy), no execution is simulated, and total_executed,
\* jobs_by_precision and total_completed count the other jobs only.
C19_RejectedIsNotExecuted ==
    /\ \A t \in GateRejected :
         /\ executions[t].pc = "done"
         /\ ~executions[t].result.ok
         /\ executions[t].result.msg = "Compliance check failed"
         /\ executions[t].result.cause \in {"ShapeViolation", "ResidencyViolation"}
         /\ executions[t].job[1].parameters = [k \in {"region"} |-> "APAC"]
              => executions[t].result.cause = "ResidencyViolation"
         /\ ~executions[t].simulated
    /\ LET counted == PastExecuteCount \ GateRejected
           qs == {executions[t].job[1].precision : t \in counted}
       IN /\ runtime_stats.total_executed = Cardinality(counted)
          /\ runtime_stats.jobs_by_precision =
               [q \in qs |-> Cardinality({t \in counted : executions[t].job[1].precision = q})]
          /\ runtime_stats.total_completed = Cardinality(PastExecuteComplete \ GateRejected)

\* A job of region APAC was rejected while another job was executed.
C19_Witness ==
    /\ \E t \in GateRejected :
         /\ executions[t].job[1].parameters = [k \in {"region"} |-> "APAC"]
         /\ executions[t].result.cause = "ResidencyViolation"
    /\ \E t \in Tasks : executions[t].simulated
    /\ runtime_stats.total_executed = 1
    /\ runtime_stats.total_completed = 1

\* C20: every job rejected by the compliance gate adds exactly one to
\* total_rejected: total_rejected is the number of requests that failed
\* compliance.
C20_RejectedAreCounted ==
    runtime_stats.total_rejected =
        Cardinality({t \in GateRejected : executions[t].pc = "done"})

\* No execute request is in progress: each has returned or was cancelled.
ExecutionsEnded == \A t \in Tasks : executions[t].pc \in {"idle", "done", "cancelled"}

\* C31: the runtime statistics of one job are updated as one atomic unit: an
\* execute request cancelled during the simulated-execution delay leaves
\* ExecutionStats as before the request, so that once no request is in
\* progress no job is counted in total_executed without being counted in
\* total_completed, total_failed or total_rejected.
C31_CancelLeavesStatsUnchanged ==
    ExecutionsEnded
    => runtime_stats.total_executed =
         runtime_stats.total_completed + runtime_stats.total_failed
         + runtime_stats.total_rejected

\* The executions between the two stats blocks of execute_job.
InFlight == {t \in Tasks : executions[t].pc = "simulate"}

LastJob(r) == deserialize_job(runtimes[r].envelope[1].payload)[1]

\* C21: the output_hash of a completed execution is a function of the job_id
\* only: two runtimes, whatever each has served before, that execute jobs with
\* the same job_id answer with the same output_hash, whatever the precision,
\* the kv_cache_seq_len, the parameters and the priority of the two jobs.
C21_HashOfJobIdOnly ==
    \A r, s \in Runtimes :
        (/\ runtimes[r].result.ok
         /\ runtimes[s].result.ok
         /\ LastJob(r).job_id = LastJob(s).job_id)
        => runtimes[r].result.output_hash = runtimes[s].result.output_hash

\* A fresh runtime and one that has served a request before have completed
\* jobs with job_id 0 that differ in everything else.
C21_Witness ==
    /\ runtimes[1].runs = 1
    /\ runtimes[2].runs = 2
    /\ runtimes[1].stats # runtimes[2].stats
    /\ runtimes[1].result.ok /\ runtimes[2].result.ok
    /\ LastJob(1).job_id = 0 /\ LastJob(2).job_id = 0
    /\ LastJob(1).precision # LastJob(2).precision
    /\ LastJob(1).kv_cache_seq_len # LastJob(2).kv_cache_seq_len
    /\ LastJob(1).parameters # LastJob(2).parameters
    /\ runtimes[1].envelope[1].meta.priority # runtimes[2].envelope[1].meta.priority

\* The job of the payload has no sequence.
ZeroLength(payload) ==
    /\ deserialize_job(payload) # <<>>
    /\ deserialize_job(payload)[1].kv_cache_seq_len = 0

\* C29: every daemon validates what it receives before acting on it:
\* through any entry path of the router, of the auction daemon (the
\* RunAuction RPC, which receives job bytes and a priority, included) and of
\* the runtime, a job with kv_cache_seq_len = 0 is never routed, matched to a
\* provider or executed, and changes no state.
C29_ZeroLengthNeverActs ==
    /\ \A t \in Tasks :
         /\ (calls[t].job # <<>> /\ calls[t].job[1].kv_cache_seq_len = 0)
              => /\ calls[t].pc = "done"
                 /\ ~calls[t].result.ok
                 /\ calls[t].provider = <<>>
         /\ (envelopes[t].envelope # <<>> /\ ZeroLength(envelopes[t].envelope[1].payload))
              => envelopes[t].pc = "done" /\ ~envelopes[t].result.ok
         /\ (executions[t].envelope # <<>> /\ ZeroLength(executions[t].envelope[1].payload))
              => executions[t].pc = "done" /\ ~executions[t].result.ok
    /\ (\A t \in Tasks :
           calls[t].job # <<>> => calls[t].job[1].kv_cache_seq_len = 0)
         => /\ stats = opened.stats
            /\ providers = opened.providers
            /\ load_stats(disk.stats) = opened.stats

\* No run_auction is in progress: each call has returned or was cancelled.
AuctionsEnded == \A t \in Tasks : calls[t].pc \in {"idle", "done", "cancelled"}

\* C30: a run_auction cancelled at a suspension point leaves no partial
\* mutation: once no call is in progress, the in-memory stats, the provider
\* utilizations and the durable store reflect the same auctions, each all
\* of it or none of it.
C30_CancelLeavesNoPartialMutation ==
    AuctionsEnded
    => LET k == stats.total_matches - opened.stats.total_matches
           reopened == OpenEngine(disk)
       IN /\ SumUtilization(providers) - SumUtilization(opened.providers) = k
          /\ reopened.stats.total_matches - opened.stats.total_matches = k
          /\ SumUtilization(reopened.providers) - SumUtilization(opened.providers) = k

(***************************************************************************)
(* Properties of the locks.                                                *)
(***************************************************************************)
\* C40: no interleaving of the lock acquisitions deadlocks: under fair
\* scheduling every routing request and Router get_stats, every run_auction,
\* flush and Auction get_stats, and every execute request and Runtime
\* get_stats eventually returns, however many requests run concurrently.
C40_EveryRequestReturns ==
    \A t \in Tasks : <>(locks # <<>> /\ Returned(t))

\* Every request has returned and one of them had to wait for a lock.
C40_Witness ==
    /\ locks # <<>>
    /\ \A t \in Tasks : Returned(t)
    /\ \E t \in Tasks : locks.tasks[t].waited
    /\ \E t \in Tasks : locks.tasks[t].name = "get_stats"

(***************************************************************************)
(* Properties of the compliance gate.                                      *)
(***************************************************************************)
\* C32: the compliance gate checks precision, then shape, then residency and
\* returns the violation of the first check that fails: a job that violates
\* both shape and residency yields ShapeViolation, and a job of an
\* unsupported precision yields PrecisionViolation whatever its shape and
\* residency.
C32_FirstFailureWins ==
    gate # <<>> /\ gate.pc = "done"
    => gate.compliance =
         IF ~SeqContains(gate.self.supported_precisions, gate.job.precision)
         THEN "PrecisionViolation"
         ELSE IF gate.shape # "Ok" THEN "ShapeViolation"
         ELSE IF gate.residency # "Ok" THEN "ResidencyViolation"
         ELSE "Ok"

\* The runtime as built has answered a job that violates shape and residency.
C32_Witness ==
    /\ gate # <<>> /\ gate.pc = "done"
    /\ gate.self = new_runtime
    /\ gate.shape = "ShapeViolation"
    /\ gate.residency = "ResidencyViolation"
    /\ gate.compliance = "ShapeViolation"

\* C33: the shape check fails with ShapeViolation exactly when
\* kv_cache_seq_len > max_sequence_length, or parameters["batch_size"] is
\* present, parses as a u32 and exceeds max_batch_size; a batch_size that
\* does not parse as u32 is ignored (with max_sequence_length = 8192, a
\* length of 9000 is rejected and 8192 is accepted).
C33_ShapeCheck ==
    gate # <<>> /\ gate.pc # "shape"
    => LET req == gate.self.shape_requirements
           job == gate.job
           too_long == job.kv_cache_seq_len > req.max_sequence_length
           too_many ==
               /\ "batch_size" \in DOMAIN job.parameters
               /\ job.parameters["batch_size"] \in DOMAIN Numerals
               /\ DigitsLeq(Numerals[job.parameters["batch_size"]], U32Max)
               /\ DigitsValue(Numerals[job.parameters["batch_size"]]) > req.max_batch_size
       IN /\ gate.shape = IF too_long \/ too_many THEN "ShapeViolation" ELSE "Ok"
          /\ (req.max_sequence_length = 8192 /\ job.kv_cache_seq_len = 9000)
               => gate.shape = "ShapeViolation"
          /\ (req.max_sequence_length = 8192 /\ job.kv_cache_seq_len = 8192 /\ ~too_many)
               => gate.shape = "Ok"

\* A batch size that does not parse as u32 was ignored.
C33_Witness ==
    /\ gate # <<>> /\ gate.pc # "shape"
    /\ "batch_size" \in DOMAIN gate.job.parameters
    /\ gate.job.parameters["batch_size"] \in {"many", "4294967296"}
    /\ gate.shape = "Ok"

\* C34: the residency check fails with ResidencyViolation exactly when
\* parameters["region"] is present and not in allowed_regions, or
\* required_residency is configured and parameters["residency"] is absent
\* or different from it; a job with no region parameter passes when
\* required_residency is not configured.
C34_ResidencyCheck ==
    gate # <<>> /\ gate.pc \in {"compliance", "done"}
    => LET req == gate.self.residency_requirements
           job == gate.job
           foreign ==
               /\ "region" \in DOMAIN job.parameters
               /\ \A i \in 1..Len(req.allowed_regions) :
                     req.allowed_regions[i] # job.parameters["region"]
           unmet ==
               /\ req.required_residency # <<>>
               /\ \/ "residency" \notin DOMAIN job.parameters
                  \/ job.parameters["residency"] # req.required_residency[1]
       IN /\ gate.residency = IF foreign \/ unmet THEN "ResidencyViolation" ELSE "Ok"
          /\ ("region" \notin DOMAIN job.parameters /\ req.required_residency = <<>>)
               => gate.residency = "Ok"

\* A required residency is configured and the job names none.
C34_Witness ==
    /\ gate # <<>> /\ gate.pc \in {"compliance", "done"}
    /\ gate.self.residency_requirements.required_residency # <<>>
    /\ "region" \notin DOMAIN gate.job.parameters
    /\ "residency" \notin DOMAIN gate.job.parameters
    /\ gate.residency = "ResidencyViolation"

(***************************************************************************)
(* Properties of the envelope and of its wire form.                        *)
(***************************************************************************)
\* The envelope invariants at clock reading current_time.
EnvelopeInvariants(env, current_time) ==
    /\ env.meta.schema_version = 3
    /\ env.meta.expires_at # <<>>
         => /\ env.meta.expires_at[1] > env.meta.created_at
            /\ env.meta.expires_at[1] > current_time
    /\ env.payload # <<>>
    /\ deserialize_job(env.payload) # <<>>
    /\ env.payload # <<>> /\ deserialize_job(env.payload) # <<>>
         => /\ deserialize_job(env.payload)[1].kv_cache_seq_len > 0
            /\ deserialize_job(env.payload)[1].precision \in {"BF16", "FP8", "E5M2", "INT8"}

Validated == codec.pc # "validate"

\* C22: validate at time now returns Ok if and only if all envelope
\* invariants hold: schema_version = 3; expires_at, when set, is after
\* created_at and after now; the payload is non-empty and parses to a job
\* with kv_cache_seq_len > 0 and a precision of the closed set.
C22_ValidateIffInvariants ==
    Validated => (codec.outcome = "Ok" <=> EnvelopeInvariants(codec.envelope, codec.at))

\* At time 1 an envelope created at 1 that expires at 2 was accepted.
C22_Witness ==
    /\ Validated
    /\ codec.outcome = "Ok"
    /\ codec.at = 1
    /\ codec.envelope.meta.created_at = 1
    /\ codec.envelope.meta.expires_at = <<2>>

\* C23: every failure of validate is one of the six kinds InvalidVersion,
\* Expired, InvalidPayload, InvalidMetadata, InvalidPrecision and
\* InvalidSequenceLength: a wrong schema_version gives InvalidVersion,
\* expires_at <= now gives Expired, expires_at <= created_at (with expires_at
\* > now) gives InvalidMetadata, an empty payload or one that does not parse
\* to a job gives InvalidPayload, and kv_cache_seq_len = 0 gives
\* InvalidSequenceLength.
C23_FailureKinds ==
    (Validated /\ codec.outcome # "Ok")
    => LET meta == codec.envelope.meta
           payload == codec.envelope.payload
           metaOk == /\ meta.schema_version = 3
                     /\ meta.expires_at # <<>>
                          => meta.expires_at[1] > codec.at /\ meta.expires_at[1] > meta.created_at
       IN /\ codec.outcome \in {"InvalidVersion", "Expired", "InvalidPayload", "InvalidMetadata",
                                "InvalidPrecision", "InvalidSequenceLength"}
          /\ meta.schema_version # 3 => codec.outcome = "InvalidVersion"
          /\ (meta.schema_version = 3 /\ meta.expires_at # <<>> /\ meta.expires_at[1] <= codec.at)
               => codec.outcome = "Expired"
          /\ (/\ meta.schema_version = 3
              /\ meta.expires_at # <<>>
              /\ meta.expires_at[1] > codec.at
              /\ meta.expires_at[1] <= meta.created_at)
               => codec.outcome = "InvalidMetadata"
          /\ (metaOk /\ (payload = <<>> \/ deserialize_job(payload) = <<>>))
               => codec.outcome = "InvalidPayload"
          /\ (/\ metaOk
              /\ payload # <<>>
              /\ deserialize_job(payload) # <<>>
              /\ deserialize_job(payload)[1].kv_cache_seq_len = 0)
               => codec.outcome = "InvalidSequenceLength"

\* C24: the wire codec is lossless with respect to validation: what
\* from_json(to_json(e)) returns has the metadata fields and the payload of
\* e, and validate gives on it the outcome (Ok or the same error kind) it
\* gives on e at the same time.
C24_WireIsLossless ==
    /\ codec.pc \in {"revalidate", "done"}
         => /\ codec.decoded # <<>>
            /\ codec.decoded[1].meta = codec.envelope.meta
            /\ codec.decoded[1].payload = codec.envelope.payload
    /\ (codec.pc = "done" /\ codec.at = codec.at_decoded)
         => codec.outcome_decoded = codec.outcome

\* An envelope with every optional field set that expires at 1 made the trip
\* and was rejected as expired on both sides at time 1.
C24_Witness ==
    /\ codec.pc = "done"
    /\ codec.at = 1 /\ codec.at_decoded = 1
    /\ codec.envelope.meta.expires_at = <<1>>
    /\ codec.envelope.meta.source_slp # <<>>
    /\ codec.envelope.meta.additional_fields # <<>>
    /\ codec.outcome = "Expired"
    /\ codec.outcome_decoded = "Expired"

(***************************************************************************)
(* Properties of the three entry paths.                                    *)
(***************************************************************************)
\* The envelope has expires_at set and expires_at <= now.
ExpiredNow(envelope) ==
    /\ envelope # <<>>
    /\ envelope[1].meta.expires_at # <<>>
    /\ envelope[1].meta.expires_at[1] <= now

\* This step is the entry of a call (before, after) with an expired envelope.
ExpiredEntry(before, after) ==
    before.pc = "idle" /\ after.pc # "idle" /\ ExpiredNow(after.envelope)

Rejected(c) == c.pc = "done" /\ ~c.result.ok

\* C18: an envelope with expires_at set and expires_at <= now when it enters
\* process_envelope is rejected by the router, by the auction daemon and by
\* the runtime, and the step that rejects it changes nothing of the daemon's
\* state but the call itself.
C18_ExpiredIsRejected ==
    [][\A t \in Tasks :
         /\ ExpiredEntry(envelopes[t], envelopes'[t])
              => /\ Rejected(envelopes'[t])
                 /\ UNCHANGED <<active_jobs, router_stats, total_routed>>
                 /\ \A u \in Tasks \ {t} : envelopes'[u] = envelopes[u]
         /\ ExpiredEntry(calls[t], calls'[t])
              => /\ Rejected(calls'[t])
                 /\ UNCHANGED <<providers, routes, stats, db, disk>>
                 /\ \A u \in Tasks \ {t} : calls'[u] = calls[u]
         /\ ExpiredEntry(executions[t], executions'[t])
              => /\ Rejected(executions'[t])
                 /\ UNCHANGED runtime_stats
                 /\ \A u \in Tasks \ {t} : executions'[u] = executions[u]]_vars

\* The auction daemon and the runtime have each rejected an envelope that
\* expired at time 1, and their counters are those of the start.
C18_Witness ==
    /\ now = 1
    /\ \E t \in Tasks :
         /\ Rejected(calls[t])
         /\ calls[t].envelope # <<>>
         /\ calls[t].envelope[1].meta.expires_at = <<1>>
         /\ calls[t].result = EnvelopeError("Envelope validation failed", "Expired")
    /\ \E t \in Tasks :
         /\ Rejected(executions[t])
         /\ executions[t].envelope[1].meta.expires_at = <<1>>
         /\ executions[t].result = RuntimeError("Envelope validation failed", "Expired")
    /\ stats = DefaultStats
    /\ providers = SeedProviders
    /\ runtime_stats = DefaultExecutionStats

====
